---- MODULE Spec2Model ----
(***************************************************************************)
(* Notification prioritization engine: the evaluation pipeline             *)
(* (expiry -> dedup -> rules -> context -> scoring -> arbitration ->       *)
(* dispatch), the KV store it shares between concurrent evaluations, the   *)
(* message bus, the durable tables and the deferred-batch scheduler.       *)
(*                                                                         *)
(* Conventions.  Instants are seconds since midnight of day 0 (UTC);       *)
(* sub-second parts are not represented.  Scores and heatmap values are    *)
(* hundredths (0.75 is 75).  Python's None is the string "none" for        *)
(* strings and NoTime for instants.                                        *)
(***************************************************************************)
EXTENDS Integers, Sequences, FiniteSets, Bags, TLC

VARIABLES
    arbIn,      \* SpecArb: the arguments handed to arbitrate
    arbOut,     \* SpecArb: the tuple arbitrate returned, or NotRun
    sendOut,    \* SpecArb: the instant _compute_optimal_send_time returned, or NoTime
    clock,      \* the wall clock (datetime.utcnow and the KV store's clock)
    kv,         \* the KV store: key -> [val, exp]
    pc,         \* per evaluation: the await it is suspended at
    evt,        \* per evaluation: the NotificationEventIn it was given
    loc,        \* per evaluation: the locals of evaluate_notification and dispatch
    results,    \* per evaluation: the DecisionResult returned to the caller
    auditLog,   \* table audit_log (a bag of rows)
    eventRows,  \* table notification_events: id -> row
    batches,    \* table digest_batches (row id = position)
    bus,        \* messages accepted by the bus (a bag)
    scheduler,  \* the scheduler task: [pc, queue, now]
    incrLog,    \* history: per user, the instants at which a dispatch incremented the counters
    ruleStore,  \* table rule_configs: rule id -> "absent", "active" or "inactive"
    rulesCache, \* rules_engine._rules_cache and _rules_loaded_at
    loader,     \* per caller of get_active_rules: where it is and its locals
    crud,       \* the rule CRUD handler in progress
    callIn,     \* the arguments of the function a function-level specification applies
    callOut,    \* what that function returned, or NotRun
    breaker,    \* the circuit breaker around _call_groq
    scoring     \* the score_with_ai call in progress and its result

arbVars == <<arbIn, arbOut, sendOut>>
pipeVars == <<clock, kv, pc, evt, loc, results, auditLog, eventRows, batches, bus, scheduler, incrLog>>
rulesVars == <<ruleStore, rulesCache, loader, crud>>
fnVars == <<callIn, callOut>>
scorerVars == <<breaker, scoring>>
vars == <<arbIn, arbOut, sendOut, clock, kv, pc, evt, loc, results, auditLog, eventRows, batches, bus, scheduler, incrLog,
          ruleStore, rulesCache, loader, crud, callIn, callOut, breaker, scoring>>

NoTime == 0 - 1
NotRun == [decision |-> "none"]

HourSeconds == 60 * 60
DaySeconds == 24 * HourSeconds

\* datetime.hour / datetime.minute / datetime.second of an instant
HourOf(t) == (t \div HourSeconds) % 24
MinuteOf(t) == (t \div 60) % 60
SecondOf(t) == t % 60

ReasonStep(layer, check, result) ==
    [layer |-> layer, check |-> check, result |-> result]

\* ------------------------------------------------------------------------
\* Configuration (app/config.py)

ai_score_now_threshold == 75
ai_score_later_threshold == 40
hourly_cap_bypass_score == 80
default_hourly_cap == 5
default_daily_cap == 20
default_cooldown_seconds == 3600
near_dedup_ttl_seconds == 86400
SEC_1H == 3600
SEC_24H == 86400

\* ------------------------------------------------------------------------
\* UserContext (services/context_enricher.py)

FlatHeatmap == [i \in 1..24 |-> 100]

hourly_cap_hit_strict(ctx) == ctx.notifications_last_1h > ctx.hourly_cap
hourly_cap_hit(ctx) == ctx.notifications_last_1h >= ctx.hourly_cap
daily_cap_hit(ctx) == ctx.notifications_last_24h >= ctx.daily_cap

is_dnd_active(start, end, current_hour) ==
    IF start > end
    THEN current_hour >= start \/ current_hour < end
    ELSE start <= current_hour /\ current_hour < end

\* ------------------------------------------------------------------------
\* Arbiter (services/arbiter.py)

\* The rounding with second=0 forgotten.
RoundDown15_keep_seconds(t) == t - (t % 60) - (MinuteOf(t) % 15) * 60 + SecondOf(t)

\* best_hour.replace(minute=minutes - minutes % 15, second=0, microsecond=0)
RoundDown15(t) == t - (t % HourSeconds) + (MinuteOf(t) - (MinuteOf(t) % 15)) * 60

\* The in_dnd test without its overnight branch.
InDndWindow_same_day(ctx, hour) == ctx.dnd_start_hour <= hour /\ hour < ctx.dnd_end_hour

\* The in_dnd test inside the candidate loop.
InDndWindow(ctx, hour) ==
    LET start == ctx.dnd_start_hour
        end == ctx.dnd_end_hour
    IN  IF start > end
        THEN hour >= start \/ hour < end
        ELSE start <= hour /\ hour < end

EffectiveHeatmap(ctx) ==
    IF Len(ctx.engagement_heatmap) = 24 THEN ctx.engagement_heatmap ELSE FlatHeatmap

\* The loop `for offset in range(1, 25)`: <<best_hour, best_score>> after
\* the offsets offset..24, entered with the running best.
RECURSIVE ScanOffsets(_, _, _, _, _)
ScanOffsets(ctx, now, offset, best_hour, best_score) ==
    IF offset > 24 THEN best_hour
    ELSE LET candidate == now + offset * HourSeconds
             hour == HourOf(candidate)
             score == EffectiveHeatmap(ctx)[hour + 1]
         IN  IF InDndWindow(ctx, hour)
             THEN ScanOffsets(ctx, now, offset + 1, best_hour, best_score)
             ELSE IF score > best_score
                  THEN ScanOffsets(ctx, now, offset + 1, candidate, score)
                  ELSE ScanOffsets(ctx, now, offset + 1, best_hour, best_score)

\* best_hour before the clamp and the rounding
ChosenHour(ctx, now) ==
    LET scanned == ScanOffsets(ctx, now, 1, NoTime, 0 - 100)
    IN  IF scanned = NoTime THEN now + HourSeconds ELSE scanned

\* The clamp without its margin of 5 minutes.
ClampToExpiry_no_margin(best_hour, expires_at) ==
    IF expires_at # NoTime /\ best_hour > expires_at
    THEN expires_at
    ELSE best_hour

ClampToExpiry(best_hour, expires_at) ==
    IF expires_at # NoTime /\ best_hour > expires_at
    THEN expires_at - 5 * 60
    ELSE best_hour

compute_optimal_send_time(ctx, expires_at, now) ==
    RoundDown15(ClampToExpiry(ChosenHour(ctx, now), expires_at))

RuleOverride(rule_name) == "rule:" \o rule_name

ArbResult(decision, scheduled_at, chain, override) ==
    [decision |-> decision, scheduled_at |-> scheduled_at,
     reason_chain |-> chain, override |-> override]

\* is_critical = event.priority_hint and event.priority_hint.value == "critical"
is_critical_high(event) == event.priority_hint = "high"
is_critical(event) == event.priority_hint = "critical"

\* Steps 2..7 of arbitrate: everything after the hard-rule returns.
arbitrate_context(event, rule_decision, rule_name, score, ctx, rule_steps, dedup_steps, ai_step, now) ==
    LET chain0 == dedup_steps \o rule_steps
        chain1 == Append(chain0, ai_step)
        sched == compute_optimal_send_time(ctx, event.expires_at, now)
        L5(c, check, result) == Append(c, ReasonStep("L5-Arbiter", check, result))
    IN  IF event.event_type \in ctx.opted_out_topics
        THEN ArbResult("never", NoTime, L5(chain0, "topic_opt_out", "NEVER"), "user_opt_out")
        ELSE IF hourly_cap_hit(ctx) /\ ~is_critical(event) /\ score < hourly_cap_bypass_score
        THEN ArbResult("later", sched, L5(chain1, "hourly_cap", "LATER"), "fatigue_hourly_cap")
        ELSE IF daily_cap_hit(ctx) /\ ~is_critical(event)
        THEN ArbResult("never", NoTime, L5(chain1, "daily_cap", "NEVER"), "fatigue_daily_cap")
        ELSE IF ctx.dnd_active /\ ~is_critical(event)
        THEN ArbResult("later", sched, L5(chain1, "dnd_active", "LATER"), "dnd_active")
        ELSE IF rule_decision = "later"
        THEN ArbResult("later", sched, L5(chain1, "rule_defer", "LATER"), RuleOverride(rule_name))
        ELSE IF score >= ai_score_now_threshold \/ is_critical(event)
        THEN ArbResult("now", NoTime, L5(chain1, "score_threshold", "NOW"), "none")
        ELSE IF score >= ai_score_later_threshold
        THEN ArbResult("later", sched, L5(chain1, "score_threshold", "LATER"), "none")
        ELSE ArbResult("never", NoTime, L5(chain1, "score_threshold", "NEVER"), "none")

\* arbitrate without its step 1: the rule verdict is consulted only after
\* the user context.
arbitrate_context_first(event, rule_decision, rule_name, score, ctx, rule_steps, dedup_steps, ai_step, now) ==
    arbitrate_context(event, rule_decision, rule_name, score, ctx, rule_steps, dedup_steps, ai_step, now)

arbitrate(event, rule_decision, rule_name, score, ctx, rule_steps, dedup_steps, ai_step, now) ==
    LET chain0 == dedup_steps \o rule_steps
        L5(c, check, result) == Append(c, ReasonStep("L5-Arbiter", check, result))
    IN  IF rule_decision = "now"
        THEN ArbResult("now", NoTime, L5(chain0, "rule_override", "NOW"), RuleOverride(rule_name))
        ELSE IF rule_decision = "never"
        THEN ArbResult("never", NoTime, L5(chain0, "rule_override", "NEVER"), RuleOverride(rule_name))
        ELSE arbitrate_context(event, rule_decision, rule_name, score, ctx,
                               rule_steps, dedup_steps, ai_step, now)

\* ------------------------------------------------------------------------
\* Rules engine (services/rules_engine.py): conditions and evaluation

\* JSON values of conditions and event fields, tagged by their Python type
VStr(s) == [t |-> "str", s |-> s, n |-> 0]
VInt(n) == [t |-> "int", s |-> "", n |-> n]
VNone == [t |-> "none", s |-> "", n |-> 0]

\* str.lower, the `in` of two strings, the order of two strings and str(int)
\* on the strings and integers the model's events and conditions use
Lower(s) == IF s = "PAYMENT" THEN "payment" ELSE IF s = "Security_Alert" THEN "security_alert" ELSE s
IsSubstring(a, b) ==
    \/ a = b
    \/ a = ""
    \/ <<a, b>> \in {<<"payment", "payment_failed">>, <<"fail", "payment_failed">>,
                     <<"promo", "promo_offer">>, <<"0", "10">>, <<"1", "10">>,
                     <<"offer", "promo_offer">>, <<"account", "account_update">>,
                     <<"update", "account_update">>, <<"security", "security_alert">>,
                     <<"alert", "security_alert">>}
StrRank(s) ==
    CASE s = "" -> 0 [] s = "0" -> 1 [] s = "10" -> 2 [] s = "5" -> 3
      [] s = "PAYMENT" -> 4 [] s = "billing" -> 5 [] s = "critical" -> 6
      [] s = "email" -> 7 [] s = "fail" -> 8 [] s = "low" -> 9 [] s = "mkt" -> 10
      [] s = "payment" -> 11 [] s = "payment_failed" -> 12 [] s = "promo" -> 13
      [] s = "promo_offer" -> 14 [] s = "push" -> 15 [] s = "sms" -> 16
      [] s = "u1" -> 17 [] OTHER -> 18
StrOfInt(n) == CASE n = 0 -> "0" [] n = 5 -> "5" [] n = 10 -> "10" [] OTHER -> "?"
StrOf(v) == IF v.t = "int" THEN StrOfInt(v.n) ELSE IF v.t = "none" THEN "None" ELSE v.s
Truthy(v) == (v.t = "str" /\ v.s # "") \/ (v.t = "int" /\ v.n # 0)

\* The fields of a NotificationEventIn the matcher reads; priority_hint is
\* "none" when the event has none, metadata maps a key to a value
RuleEvent(event_type, source, channel, priority_hint, user_id, metadata) ==
    [event_type |-> event_type, source |-> source, channel |-> channel,
     priority_hint |-> priority_hint, user_id |-> user_id, metadata |-> metadata]
NoMetadata == [k \in {} |-> VNone]

\* event_dict.get(cond_key): None for a key the event does not have
EventVal(event, cond_key) ==
    CASE cond_key = "event_type" -> VStr(event.event_type)
      [] cond_key = "source" -> VStr(event.source)
      [] cond_key = "channel" -> VStr(event.channel)
      [] cond_key = "priority_hint" ->
            IF event.priority_hint = "none" THEN VNone ELSE VStr(event.priority_hint)
      [] cond_key = "user_id" -> VStr(event.user_id)
      [] OTHER ->
            IF \E k \in DOMAIN event.metadata : cond_key = "meta." \o k
            THEN event.metadata[CHOOSE k \in DOMAIN event.metadata : cond_key = "meta." \o k]
            ELSE VNone

\* A conditions dict is the sequence of its items, in the dict's order
CondList(key, items) == [key |-> key, kind |-> "list", items |-> items, value |-> VNone, ops |-> <<>>]
CondScalar(key, value) == [key |-> key, kind |-> "scalar", items |-> {}, value |-> value, ops |-> <<>>]
CondOps(key, ops) == [key |-> key, kind |-> "ops", items |-> {}, value |-> VNone, ops |-> ops]
\* one item of an operator dict: the operand is a value (gte, lte, contains)
\* or a list (not_in)
OpItem(op, operand, operands) == [op |-> op, operand |-> operand, operands |-> operands]

\* a >= b of two Python values: "raise" when the types do not compare
PyGte(a, b) ==
    IF a.t = "int" /\ b.t = "int" THEN (IF a.n >= b.n THEN "pass" ELSE "fail")
    ELSE IF a.t = "str" /\ b.t = "str" THEN (IF StrRank(a.s) >= StrRank(b.s) THEN "pass" ELSE "fail")
    ELSE "raise"

\* One operator of an operator dict: "pass", "fail" (return False) or "raise"
op_passes(event_val, item) ==
    CASE item.op = "gte" ->
            IF event_val.t = "none" THEN "fail" ELSE PyGte(event_val, item.operand)
      [] item.op = "lte" ->
            IF event_val.t = "none" THEN "fail" ELSE PyGte(item.operand, event_val)
      [] item.op = "contains" ->
            IF ~Truthy(event_val) THEN "fail"
            ELSE IF item.operand.t # "str" THEN "raise"
            ELSE IF IsSubstring(Lower(item.operand.s), Lower(StrOf(event_val))) THEN "pass"
            ELSE "fail"
      [] item.op = "not_in" ->
            IF event_val \in item.operands THEN "fail" ELSE "pass"
      [] OTHER -> "pass"

RECURSIVE ops_pass(_, _)
ops_pass(event_val, ops) ==
    IF ops = <<>> THEN "pass"
    ELSE LET r == op_passes(event_val, Head(ops))
         IN  IF r = "pass" THEN ops_pass(event_val, Tail(ops)) ELSE r

\* One item of the conditions dict
cond_passes(event, cond) ==
    LET event_val == EventVal(event, cond.key)
    IN  CASE cond.kind = "list" -> IF event_val \in cond.items THEN "pass" ELSE "fail"
          [] cond.kind = "ops" -> ops_pass(event_val, cond.ops)
          [] OTHER -> IF event_val # cond.value THEN "fail" ELSE "pass"

\* _matches_conditions: "pass" is True, "fail" is False, "raise" an exception
RECURSIVE matches_conditions(_, _)
matches_conditions(event, conditions) ==
    IF conditions = <<>> THEN "pass"
    ELSE LET r == cond_passes(event, Head(conditions))
         IN  IF r = "pass" THEN matches_conditions(event, Tail(conditions)) ELSE r

\* _is_quiet_hours at the UTC hour now_hour; the window defaults to 22 -> 8
DefaultStartHour == 22
DefaultEndHour == 8
is_quiet_hours_always(action_params, now_hour) == TRUE
is_quiet_hours(action_params, now_hour) ==
    LET start == IF "start_hour" \in DOMAIN action_params THEN action_params.start_hour ELSE DefaultStartHour
        end == IF "end_hour" \in DOMAIN action_params THEN action_params.end_hour ELSE DefaultEndHour
    IN  IF start > end THEN now_hour >= start \/ now_hour < end
        ELSE start <= now_hour /\ now_hour < end

RuleResult(decision, rule_name, steps) ==
    [decision |-> decision, rule_name |-> rule_name, steps |-> steps]
RuleStep(rule_name, result) == ReasonStep("L2-Rules", RuleOverride(rule_name), result)

\* The loop of evaluate_rules over the rules it was given; decision "raise"
\* when _matches_conditions raised
RECURSIVE evaluate_loop(_, _, _, _)
evaluate_loop(rules, event, now_hour, steps) ==
    IF rules = <<>>
    THEN RuleResult("none", "none",
                    Append(steps, ReasonStep("L2-Rules", "rules_evaluation", "NO_MATCH")))
    ELSE LET rule == Head(rules)
             m == matches_conditions(event, rule.conditions)
             rest == Tail(rules)
         IN  IF m = "raise" THEN RuleResult("raise", "none", steps)
             ELSE IF m = "fail" THEN evaluate_loop(rest, event, now_hour, steps)
             ELSE IF rule.rule_type = "force_now"
                  THEN RuleResult("now", rule.rule_name, Append(steps, RuleStep(rule.rule_name, "FORCE_NOW")))
             ELSE IF rule.rule_type = "force_never"
                  THEN RuleResult("never", rule.rule_name, Append(steps, RuleStep(rule.rule_name, "FORCE_NEVER")))
             ELSE IF rule.rule_type = "quiet_hours" /\ is_quiet_hours(rule.action_params, now_hour)
                  THEN RuleResult("later", rule.rule_name, Append(steps, RuleStep(rule.rule_name, "DEFER")))
             ELSE IF rule.rule_type = "channel_override"
                     /\ event.channel \notin (IF "allowed_channels" \in DOMAIN rule.action_params
                                              THEN rule.action_params.allowed_channels ELSE {})
                  THEN RuleResult("never", rule.rule_name, Append(steps, RuleStep(rule.rule_name, "FORCE_NEVER")))
             ELSE evaluate_loop(rest, event, now_hour,
                                Append(steps, RuleStep(rule.rule_name, "MATCHED_NO_FORCE")))

\* evaluate_rules on the list get_active_rules returned
evaluate_rules(rules, event, now_hour) == evaluate_loop(rules, event, now_hour, <<>>)

\* A row of rule_configs, and the dict _load_rules_from_db makes of it
RuleRow(id, rule_name, rule_type, conditions, action_params, priority_order, is_active) ==
    [id |-> id, rule_name |-> rule_name, rule_type |-> rule_type, conditions |-> conditions,
     action_params |-> action_params, priority_order |-> priority_order, is_active |-> is_active]
RuleDict(r) ==
    [id |-> r.id, rule_name |-> r.rule_name, rule_type |-> r.rule_type, conditions |-> r.conditions,
     action_params |-> r.action_params, priority_order |-> r.priority_order]

\* _load_rules_from_db: the rows with is_active, ORDER BY priority_order.  The
\* order of rows of equal priority_order is the store's choice, so the
\* result is any one of these lists.  A table is a set of rows.
load_rules_from_db(table) ==
    LET active == {r \in table : r.is_active}
    IN  {order \in [1..Cardinality(active) -> {RuleDict(r) : r \in active}] :
            /\ \A i, j \in DOMAIN order : i # j => order[i] # order[j]
            /\ \A i, j \in DOMAIN order : i < j => order[i].priority_order <= order[j].priority_order}

\* Rows the specifications draw rule tables from
NoParams == [k \in {} |-> 0]
RNow ==
    RuleRow("r1", "Force critical payment alerts", "force_now",
            <<CondList("priority_hint", {VStr("critical")})>>, NoParams, 10, TRUE)
RNever ==
    RuleRow("r2", "Block bulk marketing", "force_never",
            <<CondScalar("source", VStr("mkt")),
              CondOps("meta.amount", <<OpItem("gte", VInt(5), {})>>)>>, NoParams, 10, TRUE)
RChannel ==
    RuleRow("r3", "Suppress all promotions via SMS", "channel_override",
            <<CondList("event_type", {VStr("promo_offer")})>>,
            [allowed_channels |-> {"push", "email", "in_app"}], 15, TRUE)
RQuiet ==
    RuleRow("r4", "Global quiet hours 22-08 UTC", "quiet_hours", <<>>, NoParams, 20, TRUE)
RQuietDay ==
    RuleRow("r5", "Office hours", "quiet_hours", <<>>, [start_hour |-> 9, end_hour |-> 17], 20, TRUE)
RCooldown ==
    RuleRow("r6", "Promo cooldown", "cooldown",
            <<CondOps("event_type", <<OpItem("contains", VStr("promo"), {})>>)>>, NoParams, 5, TRUE)
Inactive(row) == [row EXCEPT !.is_active = FALSE]

\* Callers of get_active_rules (evaluations in progress)
Callers == {"e1", "e2"}
_CACHE_TTL_SECONDS == 30
NeverLoadedAge == 999
LoaderIdle == [pc |-> "idle"]
CrudIdle == [pc |-> "idle", invalidated |-> FALSE]

\* The rules engine of a process that has not read its rules yet
RulesIdle ==
    /\ ruleStore = {RQuiet}
    /\ rulesCache = [rules |-> <<>>, loaded_at |-> NoTime]
    /\ loader = [c \in Callers |-> LoaderIdle]
    /\ crud = CrudIdle
FnIdle ==
    /\ callIn = [phase |-> "off"]
    /\ callOut = NotRun
ScorerIdle ==
    /\ breaker = [state |-> "closed", failures |-> 0, opened_at |-> NoTime]
    /\ scoring = [pc |-> "idle"]

\* ------------------------------------------------------------------------
\* Bounds of the pipeline model

NumEvals == 2       \* evaluation requests (each evaluates one event)
MaxTicks == 2       \* clock advances

\* The clock starts at 21:00:00 of day 0 and advances half an hour a tick.
ClockStart == 21 * HourSeconds
TickSeconds == HourSeconds \div 2

\* ------------------------------------------------------------------------
\* KV store (utils/redis_client.py; the commands used of Redis)

exact_dedup_ttl_seconds == 3600

key_exact_dedup(fingerprint) == "dedup:exact:" \o fingerprint
key_near_dedup_minhash(user_id, fingerprint) == "dedup:lsh:" \o user_id \o ":" \o fingerprint
key_count_1h(user_id) == "notif:count:" \o user_id \o ":1h"
key_count_24h(user_id) == "notif:count:" \o user_id \o ":24h"
key_last_send(user_id, event_type) == "notif:last:" \o user_id \o ":" \o event_type
key_cooldown(user_id, event_type) == "notif:cooldown:" \o user_id \o ":" \o event_type

\* A key is there until its expiry instant; exp = NoTime is a key without TTL.
KvLive(store, k, t) == k \in DOMAIN store /\ (store[k].exp = NoTime \/ t < store[k].exp)

\* GET: the value, or "none"
KvGet(store, k, t) == IF KvLive(store, k, t) THEN store[k].val ELSE "none"

KvPut(store, k, entry) == [x \in DOMAIN store \cup {k} |-> IF x = k THEN entry ELSE store[x]]

\* SET without the EX option: the key never expires.
KvSetEx_persistent(store, k, v, ttl, t) == KvPut(store, k, [val |-> v, exp |-> NoTime])

\* SET key value EX ttl
KvSetEx(store, k, v, ttl, t) == KvPut(store, k, [val |-> v, exp |-> t + ttl])

\* INCR key
KvIncr(store, k, t) ==
    IF KvLive(store, k, t)
    THEN KvPut(store, k, [store[k] EXCEPT !.val = @ + 1])
    ELSE KvPut(store, k, [val |-> 1, exp |-> NoTime])

\* EXPIRE key ttl without the NX flag: the TTL is reset on every call.
KvExpireAlways(store, k, ttl, t) ==
    IF KvLive(store, k, t) THEN KvPut(store, k, [store[k] EXCEPT !.exp = t + ttl]) ELSE store

\* EXPIRE key ttl NX: sets the TTL only when the key has none
KvExpireNx(store, k, ttl, t) ==
    IF KvLive(store, k, t) /\ store[k].exp = NoTime
    THEN KvPut(store, k, [store[k] EXCEPT !.exp = t + ttl])
    ELSE store

\* The store drops the keys whose expiry instant has come.
KvPurge(store, t) == [k \in {x \in DOMAIN store : KvLive(store, x, t)} |-> store[k]]

EmptyKv == [k \in {} |-> [val |-> "none", exp |-> NoTime]]

\* ------------------------------------------------------------------------
\* Events offered to the pipeline (models/schemas.py, NotificationEventIn)

\* message: its length class and the MinHash signature of title + message
\* (equal signatures stand for an estimated Jaccard similarity >= 0.85)
Event(user_id, event_type, title, dedupe_key, source, channel, priority_hint, expires_at, long_message, signature) ==
    [user_id |-> user_id, event_type |-> event_type, title |-> title,
     dedupe_key |-> dedupe_key, source |-> source, channel |-> channel,
     priority_hint |-> priority_hint, expires_at |-> expires_at,
     long_message |-> long_message, signature |-> signature]

EvPromo == Event("u1", "promo_offer", "Big Sale!", "none", "mkt", "push", "low", NoTime, FALSE, "sigA")
EvPayment == Event("u1", "promo_offer", "Payment failed", "pay-1", "billing", "push", "critical", NoTime, TRUE, "sigB")
EvFlash == Event("u1", "promo_offer", "Flash sale", "none", "mkt", "email", "none",
                 ClockStart + TickSeconds \div 2, TRUE, "sigB")
EvOther == Event("u2", "promo_offer", "Big Sale!", "none", "mkt", "push", "low", NoTime, FALSE, "sigA")
Events == {EvPromo, EvPayment, EvFlash, EvOther}
NoEvent == [user_id |-> "none"]
Users == {"u1", "u2"}

\* ------------------------------------------------------------------------
\* Dedup guard (services/dedup.py)

\* _normalize_text on the titles above: lowercase, punctuation removed,
\* whitespace collapsed
normalize_text(text) ==
    CASE text = "Big Sale!" -> "big sale"
      [] text = "Payment failed" -> "payment failed"
      [] text = "Flash sale" -> "flash sale"
      [] OTHER -> text

\* The string that is hashed; SHA-256 is taken to be collision-free.
compute_fingerprint(event) ==
    event.user_id \o "|" \o event.event_type \o "|"
        \o (IF event.dedupe_key \notin {"none", ""} THEN event.dedupe_key ELSE normalize_text(event.title))
        \o "|" \o event.source

\* check_exact_duplicate, second half: SET key "1" EX exact_dedup_ttl_seconds
\* (the variant below registers the fingerprint for half the configured TTL)
\* check_exact_duplicate without its SET.
register_fingerprint_none(store, fingerprint, t) == store
register_fingerprint_half_ttl(store, fingerprint, t) ==
    KvSetEx(store, key_exact_dedup(fingerprint), "1", exact_dedup_ttl_seconds \div 2, t)
register_fingerprint(store, fingerprint, t) ==
    KvSetEx(store, key_exact_dedup(fingerprint), "1", exact_dedup_ttl_seconds, t)

\* check_near_duplicate, the scan: some live signature of the user's is
\* similar to the event's
NearDuplicateFound(store, event, t) ==
    \E u \in Users : \E e \in Events :
        /\ u = event.user_id
        /\ KvGet(store, key_near_dedup_minhash(u, compute_fingerprint(e)), t) = event.signature

\* check_topic_cooldown: the result of its reason step
check_topic_cooldown(store, event, t) ==
    IF event.priority_hint = "critical" THEN "BYPASS"
    ELSE IF KvGet(store, key_cooldown(event.user_id, event.event_type), t) # "none" THEN "DEFER"
    ELSE "PASS"

\* register_cooldown that registers for every event, critical or not
register_cooldown_always(store, event, ttl_seconds, t) ==
    KvSetEx(store, key_cooldown(event.user_id, event.event_type), "1", ttl_seconds, t)

\* register_cooldown that registers nothing for any event
register_cooldown_never(store, event, ttl_seconds, t) == store

\* register_cooldown: nothing for a critical event, else SET cooldown "1" EX ttl
register_cooldown(store, event, ttl_seconds, t) ==
    IF event.priority_hint = "critical"
    THEN store
    ELSE KvSetEx(store, key_cooldown(event.user_id, event.event_type), "1", ttl_seconds, t)

\* ------------------------------------------------------------------------
\* User context (services/context_enricher.py)

\* Table user_profiles: u1 has a row with cap overrides and a DND window at
\* night; u2 has no row, so the UserContext defaults apply.
ProfileOf(user_id) ==
    IF user_id = "u1"
    THEN [found |-> TRUE, dnd_start_hour |-> 1, dnd_end_hour |-> 5,
          opted_out_topics |-> {"newsletter"},
          hourly_cap_override |-> 1, daily_cap_override |-> 2]
    ELSE [found |-> FALSE, dnd_start_hour |-> 22, dnd_end_hour |-> 8,
          opted_out_topics |-> {},
          hourly_cap_override |-> 0, daily_cap_override |-> 0]

UserContext(user_id) ==
    [notifications_last_1h |-> 0, notifications_last_24h |-> 0,
     hourly_cap |-> default_hourly_cap, daily_cap |-> default_daily_cap,
     dnd_active |-> FALSE, dnd_start_hour |-> 22, dnd_end_hour |-> 8,
     opted_out_topics |-> {}, engagement_heatmap |-> FlatHeatmap]

enrich_context(event, count_1h, count_24h, t) ==
    LET profile == ProfileOf(event.user_id)
        base == [UserContext(event.user_id) EXCEPT
                    !.notifications_last_1h = count_1h,
                    !.notifications_last_24h = count_24h]
        ctx == IF profile.found
               THEN [base EXCEPT
                        !.dnd_start_hour = profile.dnd_start_hour,
                        !.dnd_end_hour = profile.dnd_end_hour,
                        !.opted_out_topics = profile.opted_out_topics,
                        !.hourly_cap = IF profile.hourly_cap_override # 0
                                       THEN profile.hourly_cap_override ELSE @,
                        !.daily_cap = IF profile.daily_cap_override # 0
                                      THEN profile.daily_cap_override ELSE @]
               ELSE base
    IN  [ctx EXCEPT !.dnd_active = is_dnd_active(ctx.dnd_start_hour, ctx.dnd_end_hour, HourOf(t))]

\* ------------------------------------------------------------------------
\* The evaluation pipeline (services/pipeline.py, services/dispatcher.py)

NoResult == [decision |-> "none"]

\* The locals of one evaluation.  eval_at, exact, set_at, saw and after are
\* history: when the evaluation ran its L0 and exact checks, how the exact
\* check ended, when it registered its fingerprint, which evaluations had
\* registered theirs by then, and which had returned by then.
IdleLoc ==
    [chain |-> <<>>, rule_decision |-> "none", count_1h |-> 0,
     decision |-> "none", scheduled_at |-> NoTime, published |-> "none", batch |-> 0,
     eval_at |-> NoTime, exact |-> "none", set_at |-> NoTime, saw |-> {}, after |-> {}]

\* What an evaluation keeps once it has returned.
Returned(l) ==
    [IdleLoc EXCEPT !.decision = l.decision, !.published = l.published,
                    !.eval_at = l.eval_at, !.exact = l.exact,
                    !.set_at = l.set_at, !.saw = l.saw, !.after = l.after]

DecisionResult(event_id, decision, scheduled_at, chain) ==
    [event_id |-> event_id, decision |-> decision,
     scheduled_at |-> scheduled_at, reason_chain |-> chain]

expired_result_after_dedup(event_id) ==
    DecisionResult(event_id, "never", NoTime,
                   <<ReasonStep("L1-Dedup", "exact_duplicate", "PASS"), ReasonStep("L0-Ingestion", "expiry_check", "NEVER")>>)

expired_result(event_id) ==
    DecisionResult(event_id, "never", NoTime, <<ReasonStep("L0-Ingestion", "expiry_check", "NEVER")>>)

dedup_suppressed_result(event_id, steps) == DecisionResult(event_id, "never", NoTime, steps)

\* evaluate_rules: the reason steps that go with a verdict of rule R1
RuleName(rule_decision) == IF rule_decision = "none" THEN "none" ELSE "R1"
RuleSteps(rule_decision) ==
    IF rule_decision = "now" THEN <<ReasonStep("L2-Rules", RuleOverride("R1"), "FORCE_NOW")>>
    ELSE IF rule_decision = "never" THEN <<ReasonStep("L2-Rules", RuleOverride("R1"), "FORCE_NEVER")>>
    ELSE IF rule_decision = "later" THEN <<ReasonStep("L2-Rules", RuleOverride("R1"), "DEFER")>>
    ELSE <<ReasonStep("L2-Rules", "rules_evaluation", "NO_MATCH")>>

RuleVerdicts == {"none", "now", "never", "later"}

\* score_with_ai: a score (hundredths) and its decision hint
Scores == {30, 60, 90}
score_reason_step(score) ==
    ReasonStep("L4-AIScorer", "heuristic_fallback",
               IF score >= ai_score_now_threshold THEN "NOW"
               ELSE IF score >= ai_score_later_threshold THEN "LATER" ELSE "NEVER")
SkippedAiStep == ReasonStep("L4-AIScorer", "skipped", "SKIPPED")

\* _persist_event and _write_audit_log
EventRow(event, decision, scheduled_at) ==
    [user_id |-> event.user_id, channel |-> event.channel, expires_at |-> event.expires_at,
     priority_hint |-> event.priority_hint, decision |-> decision, scheduled_at |-> scheduled_at]
AuditRow(event_id, decision, chain) ==
    [event_id |-> event_id, decision |-> decision, reason_chain |-> chain]

\* A message on the bus
Message(topic, key, kind, event_ids, batch_id) ==
    [topic |-> topic, key |-> key, kind |-> kind, event_ids |-> event_ids, batch_id |-> batch_id]

DigestBatch(user_id, channel, event_ids, scheduled_at) ==
    [user_id |-> user_id, channel |-> channel, event_ids |-> event_ids,
     scheduled_at |-> scheduled_at, status |-> "pending", sent_at |-> NoTime]

SchedIdle == [pc |-> "idle", queue |-> <<>>, now |-> NoTime, dirty |-> {}]

PipeIdle(n) ==
    /\ clock = ClockStart
    /\ kv = EmptyKv
    /\ pc = [p \in 1..n |-> "idle"]
    /\ evt = [p \in 1..n |-> NoEvent]
    /\ loc = [p \in 1..n |-> IdleLoc]
    /\ results = [p \in 1..n |-> NoResult]
    /\ auditLog = EmptyBag
    /\ eventRows = [i \in {} |-> NoEvent]
    /\ batches = <<>>
    /\ bus = EmptyBag
    /\ scheduler = SchedIdle
    /\ incrLog = [u \in Users |-> <<>>]

Init ==
    /\ arbIn = [phase |-> "off"]
    /\ arbOut = NotRun
    /\ sendOut = NoTime
    /\ PipeIdle(NumEvals)
    /\ RulesIdle /\ FnIdle /\ ScorerIdle

\* The request is parsed: expires_must_be_future rejects an expires_at that
\* has passed.  Evaluations are numbered in the order of their requests.
Submit(p, e) ==
    /\ pc[p] = "idle"
    /\ \A q \in DOMAIN pc : q < p => pc[q] # "idle"
    /\ ~(e.expires_at # NoTime /\ e.expires_at < clock)
    /\ evt' = [evt EXCEPT ![p] = e]
    /\ pc' = [pc EXCEPT ![p] = "l0"]
    /\ UNCHANGED <<rulesVars, fnVars, scorerVars, arbIn, arbOut, sendOut, clock, kv, loc, results, auditLog, eventRows, batches, bus, scheduler, incrLog>>

\* evaluate_notification up to the first KV reply: the L0 expiry check, then
\* check_exact_duplicate's GET.
EvaluateStart(p) ==
    /\ pc[p] = "l0"
    /\ LET e == evt[p]
           started == [loc[p] EXCEPT
                          !.eval_at = clock,
                          !.after = {q \in DOMAIN pc : pc[q] = "done"},
                          !.saw = {q \in DOMAIN pc : loc[q].set_at # NoTime}]
           existing == KvGet(kv, key_exact_dedup(compute_fingerprint(e)), clock)
       IN  IF e.expires_at # NoTime /\ e.expires_at < clock
           THEN /\ results' = [results EXCEPT ![p] = expired_result(p)]
                /\ loc' = [loc EXCEPT ![p] = Returned(started)]
                /\ pc' = [pc EXCEPT ![p] = "done"]
           ELSE IF existing # "none"
           THEN /\ results' = [results EXCEPT ![p] = dedup_suppressed_result(p,
                                 <<ReasonStep("L1-Dedup", "exact_duplicate", "SUPPRESS")>>)]
                /\ loc' = [loc EXCEPT ![p] = Returned([started EXCEPT !.exact = "dup"])]
                /\ pc' = [pc EXCEPT ![p] = "done"]
           ELSE /\ loc' = [loc EXCEPT ![p] = [started EXCEPT !.exact = "pass"]]
                /\ pc' = [pc EXCEPT ![p] = "exact_set"]
                /\ UNCHANGED results
    /\ UNCHANGED <<rulesVars, fnVars, scorerVars, arbIn, arbOut, sendOut, clock, kv, evt, auditLog, eventRows, batches, bus, scheduler, incrLog>>

\* run_dedup_pipeline's test for tier 2: len(event.message) > 20
\* (the variant below runs tier 2 for every message)
near_tier_applies_always(event) == TRUE
near_tier_applies(event) == event.long_message

\* check_exact_duplicate's SET, then the branch on the message length
ExactSet(p) ==
    /\ pc[p] = "exact_set"
    /\ kv' = register_fingerprint(kv, compute_fingerprint(evt[p]), clock)
    /\ loc' = [loc EXCEPT ![p] = [@ EXCEPT
                  !.set_at = clock,
                  !.chain = <<ReasonStep("L1-Dedup", "exact_duplicate", "PASS")>>]]
    /\ pc' = [pc EXCEPT ![p] = IF near_tier_applies(evt[p]) THEN "near_scan" ELSE "cooldown"]
    /\ UNCHANGED <<rulesVars, fnVars, scorerVars, arbIn, arbOut, sendOut, clock, evt, results, auditLog, eventRows, batches, bus, scheduler, incrLog>>

\* check_near_duplicate's scan of the user's signatures
NearScan(p) ==
    /\ pc[p] = "near_scan"
    /\ IF NearDuplicateFound(kv, evt[p], clock)
       THEN /\ results' = [results EXCEPT ![p] = dedup_suppressed_result(p,
                             Append(loc[p].chain, ReasonStep("L1-Dedup", "near_duplicate_lsh", "SUPPRESS")))]
            /\ loc' = [loc EXCEPT ![p] = Returned(@)]
            /\ pc' = [pc EXCEPT ![p] = "done"]
       ELSE /\ pc' = [pc EXCEPT ![p] = "near_set"]
            /\ UNCHANGED <<results, loc>>
    /\ UNCHANGED <<rulesVars, fnVars, scorerVars, arbIn, arbOut, sendOut, clock, kv, evt, auditLog, eventRows, batches, bus, scheduler, incrLog>>

\* check_near_duplicate's SET of the event's own signature
NearSet(p) ==
    /\ pc[p] = "near_set"
    /\ kv' = KvSetEx(kv, key_near_dedup_minhash(evt[p].user_id, compute_fingerprint(evt[p])),
                     evt[p].signature, near_dedup_ttl_seconds, clock)
    /\ loc' = [loc EXCEPT ![p] = [@ EXCEPT
                  !.chain = Append(@, ReasonStep("L1-Dedup", "near_duplicate_lsh", "PASS"))]]
    /\ pc' = [pc EXCEPT ![p] = "cooldown"]
    /\ UNCHANGED <<rulesVars, fnVars, scorerVars, arbIn, arbOut, sendOut, clock, evt, results, auditLog, eventRows, batches, bus, scheduler, incrLog>>

\* GET of a counter key: int(value or 0)
KvCount(store, k, t) == IF KvLive(store, k, t) THEN store[k].val ELSE 0

\* dispatch up to its first await: _persist_event and _write_audit_log add
\* their rows; a NEVER decision then returns, the others go on to publish.
DispatchStart(p, d) ==
    /\ eventRows' = [i \in DOMAIN eventRows \cup {p} |->
                        IF i = p THEN EventRow(evt[p], d.decision, d.scheduled_at) ELSE eventRows[i]]
    /\ auditLog' = auditLog (+) SetToBag({AuditRow(p, d.decision, d.reason_chain)})
    /\ IF d.decision = "never"
       THEN /\ results' = [results EXCEPT ![p] = DecisionResult(p, "never", d.scheduled_at, d.reason_chain)]
            /\ loc' = [loc EXCEPT ![p] = Returned([@ EXCEPT !.decision = "never"])]
            /\ pc' = [pc EXCEPT ![p] = "done"]
       ELSE /\ loc' = [loc EXCEPT ![p] = [@ EXCEPT !.decision = d.decision,
                                                    !.scheduled_at = d.scheduled_at,
                                                    !.chain = d.reason_chain]]
            /\ pc' = [pc EXCEPT ![p] = "publish"]
            /\ UNCHANGED results

\* check_topic_cooldown, then evaluate_rules (its verdict is an input); a
\* hard verdict goes straight to arbitrate and dispatch with the dummy score
\* and the default UserContext.
CooldownAndRules(p, rule_decision) ==
    /\ pc[p] = "cooldown"
    /\ LET e == evt[p]
           cooling == check_topic_cooldown(kv, e, clock) = "DEFER"
           step == ReasonStep("L1-Dedup", "topic_cooldown", check_topic_cooldown(kv, e, clock))
           dedup_steps == Append(loc[p].chain, step)
       IN  IF cooling
           THEN /\ results' = [results EXCEPT ![p] = dedup_suppressed_result(p,
                                 Append(loc[p].chain, ReasonStep("L1-Dedup", "topic_cooldown", "DEFER")))]
                /\ loc' = [loc EXCEPT ![p] = Returned(@)]
                /\ pc' = [pc EXCEPT ![p] = "done"]
                /\ UNCHANGED <<eventRows, auditLog>>
           ELSE IF rule_decision \in {"now", "never"}
           THEN DispatchStart(p, arbitrate(e, rule_decision, RuleName(rule_decision),
                                           IF rule_decision = "now" THEN 100 ELSE 0,
                                           UserContext(e.user_id), RuleSteps(rule_decision),
                                           dedup_steps, SkippedAiStep, clock))
           ELSE /\ loc' = [loc EXCEPT ![p] = [@ EXCEPT !.chain = dedup_steps,
                                                        !.rule_decision = rule_decision]]
                /\ pc' = [pc EXCEPT ![p] = "count_1h"]
                /\ UNCHANGED <<results, eventRows, auditLog>>
    /\ UNCHANGED <<rulesVars, fnVars, scorerVars, arbIn, arbOut, sendOut, clock, kv, evt, batches, bus, scheduler, incrLog>>

\* _fetch_redis_counters, first GET
FetchCount1h(p) ==
    /\ pc[p] = "count_1h"
    /\ loc' = [loc EXCEPT ![p] = [@ EXCEPT !.count_1h = KvCount(kv, key_count_1h(evt[p].user_id), clock)]]
    /\ pc' = [pc EXCEPT ![p] = "count_24h"]
    /\ UNCHANGED <<rulesVars, fnVars, scorerVars, arbIn, arbOut, sendOut, clock, kv, evt, results, auditLog, eventRows, batches, bus, scheduler, incrLog>>

\* _fetch_redis_counters, second GET; then the rest of enrich_context, the
\* score (an input), arbitrate and the start of dispatch.
FetchCount24h(p, score) ==
    /\ pc[p] = "count_24h"
    /\ LET e == evt[p]
           ctx == enrich_context(e, loc[p].count_1h,
                                 KvCount(kv, key_count_24h(e.user_id), clock), clock)
       IN  DispatchStart(p, arbitrate(e, loc[p].rule_decision, RuleName(loc[p].rule_decision),
                                      score, ctx, RuleSteps(loc[p].rule_decision),
                                      loc[p].chain, score_reason_step(score), clock))
    /\ UNCHANGED <<rulesVars, fnVars, scorerVars, arbIn, arbOut, sendOut, clock, kv, evt, batches, bus, scheduler, incrLog>>

\* The topic dispatch publishes to: kafka_topic_send_now for NOW,
\* kafka_topic_defer for LATER (the variant sends both to send_now)
publish_topic_send_now_only(decision) == "send_now"
publish_topic(decision) == IF decision = "now" THEN "send_now" ELSE "defer"

\* publish (utils/kafka_client.py): the bus takes the message, or the
\* producer fails and the exception is logged and swallowed.
Publish(p, ok) ==
    /\ pc[p] = "publish"
    /\ LET topic == publish_topic(loc[p].decision)
       IN  bus' = IF ok
                  THEN bus (+) SetToBag({Message(topic, evt[p].user_id, "event", {p}, 0)})
                  ELSE bus
    /\ loc' = [loc EXCEPT ![p] = [@ EXCEPT !.published = IF ok THEN "ok" ELSE "failed"]]
    /\ pc' = [pc EXCEPT ![p] = IF loc[p].decision = "now" THEN "incr" ELSE "batch_select"]
    /\ UNCHANGED <<rulesVars, fnVars, scorerVars, arbIn, arbOut, sendOut, clock, kv, evt, results, auditLog, eventRows, batches, scheduler, incrLog>>

\* The MULTI/EXEC block of _increment_fatigue_counters
increment_fatigue_counters(store, user_id, event_type, t) ==
    LET s1 == KvExpireNx(KvIncr(store, key_count_1h(user_id), t), key_count_1h(user_id), SEC_1H, t)
        s2 == KvExpireNx(KvIncr(s1, key_count_24h(user_id), t), key_count_24h(user_id), SEC_24H, t)
    IN  KvSetEx(s2, key_last_send(user_id, event_type), t, SEC_24H, t)

ReturnFromDispatch(p) ==
    /\ results' = [results EXCEPT ![p] = DecisionResult(p, loc[p].decision, loc[p].scheduled_at, loc[p].chain)]
    /\ loc' = [loc EXCEPT ![p] = Returned(@)]
    /\ pc' = [pc EXCEPT ![p] = "done"]

\* _increment_fatigue_counters; register_cooldown returns at once for a
\* critical event, and dispatch returns with it.
IncrementCounters(p) ==
    /\ pc[p] = "incr"
    /\ LET u == evt[p].user_id
           counted == increment_fatigue_counters(kv, u, evt[p].event_type, clock)
       IN  /\ kv' = IF evt[p].priority_hint = "critical"
                     THEN register_cooldown(counted, evt[p], default_cooldown_seconds, clock)
                     ELSE counted
           /\ incrLog' = [incrLog EXCEPT ![u] = Append(@,
                             [at |-> clock,
                              new_1h |-> ~KvLive(kv, key_count_1h(u), clock),
                              new_24h |-> ~KvLive(kv, key_count_24h(u), clock)])]
    /\ IF evt[p].priority_hint = "critical"
       THEN ReturnFromDispatch(p)
       ELSE /\ pc' = [pc EXCEPT ![p] = "cooldown_set"]
            /\ UNCHANGED <<loc, results>>
    /\ UNCHANGED <<rulesVars, fnVars, scorerVars, arbIn, arbOut, sendOut, clock, evt, auditLog, eventRows, batches, bus, scheduler>>

\* register_cooldown's SET, and the return of dispatch
RegisterCooldown(p) ==
    /\ pc[p] = "cooldown_set"
    /\ kv' = register_cooldown(kv, evt[p], default_cooldown_seconds, clock)
    /\ ReturnFromDispatch(p)
    /\ UNCHANGED <<rulesVars, fnVars, scorerVars, arbIn, arbOut, sendOut, clock, evt, auditLog, eventRows, batches, bus, scheduler, incrLog>>

\* _ensure_digest_batch, the SELECT ... LIMIT 1 (any row that matches)
OpenBatches(p) ==
    {i \in 1..Len(batches) :
        /\ batches[i].user_id = evt[p].user_id
        /\ batches[i].channel = evt[p].channel
        /\ batches[i].status = "pending"
        /\ batches[i].scheduled_at >= loc[p].scheduled_at}

SelectBatch(p) ==
    /\ pc[p] = "batch_select"
    /\ \E i \in (IF OpenBatches(p) = {} THEN {0} ELSE OpenBatches(p)) :
           loc' = [loc EXCEPT ![p] = [@ EXCEPT !.batch = i]]
    /\ pc' = [pc EXCEPT ![p] = "batch_write"]
    /\ UNCHANGED <<rulesVars, fnVars, scorerVars, arbIn, arbOut, sendOut, clock, kv, evt, results, auditLog, eventRows, batches, bus, scheduler, incrLog>>

\* _ensure_digest_batch, the write: the id is appended to the list object
\* loaded from the row and the same object is assigned back, and whether the
\* unit of work writes the column depends on its change detection (flushed);
\* without a row a new batch is added.
WriteBatch(p, flushed) ==
    /\ pc[p] = "batch_write"
    /\ batches' = IF loc[p].batch = 0
                  THEN Append(batches, DigestBatch(evt[p].user_id, evt[p].channel, <<p>>, loc[p].scheduled_at))
                  ELSE IF flushed
                  THEN [batches EXCEPT ![loc[p].batch].event_ids = Append(@, p)]
                  ELSE batches
    /\ ReturnFromDispatch(p)
    /\ UNCHANGED <<rulesVars, fnVars, scorerVars, arbIn, arbOut, sendOut, clock, kv, evt, auditLog, eventRows, bus, scheduler, incrLog>>

\* ------------------------------------------------------------------------
\* The scheduler (services/scheduler.py)

\* The SELECT of process_due_batches: status pending and scheduled_at <= now
\* (the variant selects every pending batch)
DueBatches_all_pending == {i \in 1..Len(batches) : batches[i].status = "pending"}
DueBatches == {i \in 1..Len(batches) : batches[i].status = "pending" /\ batches[i].scheduled_at <= clock}

RECURSIVE Loaded(_)
\* The batch rows the SELECT returned, as loaded (ascending id)
Loaded(ids) ==
    IF ids = {} THEN <<>>
    ELSE LET i == CHOOSE x \in ids : \A y \in ids : x <= y
         IN  <<[id |-> i, user_id |-> batches[i].user_id, event_ids |-> batches[i].event_ids]>>
                 \o Loaded(ids \ {i})

\* process_due_batches, the SELECT of the due pending batches
SchedSelect ==
    /\ scheduler.pc = "idle"
    /\ DueBatches # {}
    /\ scheduler' = [pc |-> "run", queue |-> Loaded(DueBatches), now |-> clock, dirty |-> {}]
    /\ UNCHANGED <<rulesVars, fnVars, scorerVars, arbIn, arbOut, sendOut, clock, kv, pc, evt, loc, results, auditLog, eventRows, batches, bus, incrLog>>

\* valid_events without the test of expires_at
ValidEvents_keep_expired(b, t) ==
    {i \in DOMAIN eventRows : \E k \in 1..Len(b.event_ids) : b.event_ids[k] = i}

\* The events of a loaded batch that have a row and are not expired at the
\* instant the run started
ValidEvents(b, t) ==
    {i \in DOMAIN eventRows :
        /\ \E k \in 1..Len(b.event_ids) : b.event_ids[k] = i
        /\ (eventRows[i].expires_at = NoTime \/ eventRows[i].expires_at > t)}

\* One turn of the loop over the batches
SchedBatch(ok) ==
    /\ scheduler.pc = "run"
    /\ scheduler.queue # <<>>
    /\ LET b == Head(scheduler.queue)
           valid == ValidEvents(b, scheduler.now)
           kind == IF Cardinality(valid) = 1 THEN "scheduled_send" ELSE "digest"
       IN  /\ bus' = IF valid # {} /\ ok
                     THEN bus (+) SetToBag({Message("send_now", b.user_id, kind, valid, b.id)})
                     ELSE bus
           /\ scheduler' = [scheduler EXCEPT
                  !.queue = Tail(@),
                  !.dirty = @ \cup {[id |-> b.id,
                                     status |-> IF valid = {} THEN "cancelled" ELSE "sent",
                                     sent_at |-> scheduler.now]}]
    /\ UNCHANGED <<rulesVars, fnVars, scorerVars, arbIn, arbOut, sendOut, clock, kv, pc, evt, loc, results, auditLog, eventRows, batches, incrLog>>

\* The commit that ends the run writes the status and sent_at of the
\* batches it handled.
SchedCommit ==
    /\ scheduler.pc = "run"
    /\ scheduler.queue = <<>>
    /\ batches' = [i \in 1..Len(batches) |->
                      IF \E d \in scheduler.dirty : d.id = i
                      THEN LET d == CHOOSE x \in scheduler.dirty : x.id = i
                           IN  [batches[i] EXCEPT !.status = d.status, !.sent_at = d.sent_at]
                      ELSE batches[i]]
    /\ scheduler' = SchedIdle
    /\ UNCHANGED <<rulesVars, fnVars, scorerVars, arbIn, arbOut, sendOut, clock, kv, pc, evt, loc, results, auditLog, eventRows, bus, incrLog>>

\* ------------------------------------------------------------------------
\* Time passes; the store drops the keys that expire.  A step of the clock
\* is half an hour: no evaluation and no scheduler run is under way across it
\* (a request may wait between its parsing and its evaluation).
Tick ==
    /\ clock < ClockStart + MaxTicks * TickSeconds
    /\ \A p \in DOMAIN pc : pc[p] \in {"idle", "l0", "done"}
    /\ scheduler.pc = "idle"
    /\ clock' = clock + TickSeconds
    /\ kv' = KvPurge(kv, clock + TickSeconds)
    /\ UNCHANGED <<rulesVars, fnVars, scorerVars, arbIn, arbOut, sendOut, pc, evt, loc, results, auditLog, eventRows, batches, bus, scheduler, incrLog>>

Next ==
    \/ \E p \in DOMAIN pc : \E e \in Events : Submit(p, e)
    \/ \E p \in DOMAIN pc : EvaluateStart(p)
    \/ \E p \in DOMAIN pc : ExactSet(p)
    \/ \E p \in DOMAIN pc : NearScan(p)
    \/ \E p \in DOMAIN pc : NearSet(p)
    \/ \E p \in DOMAIN pc : \E rule_decision \in RuleVerdicts : CooldownAndRules(p, rule_decision)
    \/ \E p \in DOMAIN pc : FetchCount1h(p)
    \/ \E p \in DOMAIN pc : \E score \in Scores : FetchCount24h(p, score)
    \/ \E p \in DOMAIN pc : \E ok \in BOOLEAN : Publish(p, ok)
    \/ \E p \in DOMAIN pc : IncrementCounters(p)
    \/ \E p \in DOMAIN pc : RegisterCooldown(p)
    \/ \E p \in DOMAIN pc : SelectBatch(p)
    \/ \E p \in DOMAIN pc : \E flushed \in BOOLEAN : WriteBatch(p, flushed)
    \/ SchedSelect
    \/ \E ok \in BOOLEAN : SchedBatch(ok)
    \/ SchedCommit
    \/ Tick

Spec == Init /\ [][Next]_vars

\* ------------------------------------------------------------------------
\* SpecForceNow: one more evaluation, under a rule set whose force_now rule
\* matches every event, so that every evaluation that passes the dedup guard
\* is dispatched NOW.

ForceNowEvents == {EvPromo, EvPayment}

InitForceNow ==
    /\ arbIn = [phase |-> "off"]
    /\ arbOut = NotRun
    /\ sendOut = NoTime
    /\ PipeIdle(NumEvals + 1)
    /\ RulesIdle /\ FnIdle /\ ScorerIdle

NextForceNow ==
    \/ \E p \in DOMAIN pc : \E e \in ForceNowEvents : Submit(p, e)
    \/ \E p \in DOMAIN pc : EvaluateStart(p)
    \/ \E p \in DOMAIN pc : ExactSet(p)
    \/ \E p \in DOMAIN pc : NearScan(p)
    \/ \E p \in DOMAIN pc : NearSet(p)
    \/ \E p \in DOMAIN pc : CooldownAndRules(p, "now")
    \/ \E p \in DOMAIN pc : \E ok \in BOOLEAN : Publish(p, ok)
    \/ \E p \in DOMAIN pc : IncrementCounters(p)
    \/ \E p \in DOMAIN pc : RegisterCooldown(p)
    \/ Tick

SpecForceNow == InitForceNow /\ [][NextForceNow]_vars

\* ------------------------------------------------------------------------
\* SpecArb: arbitrate and _compute_optimal_send_time applied to arguments
\* drawn from bounded sets.

ArbPriorities == {"critical", "low", "none"}
ArbRuleDecisions == {"none", "now", "never", "later"}
ArbScores == {0, 40, 74, 75, 79, 80}
\* 21:07:30 and 12:45:00 of day 0
ArbNows == {21 * HourSeconds + 7 * 60 + 30, 12 * HourSeconds + 45 * 60}
\* expires_at as a distance from now: 1 h 1 min, 2 h, 30 h
ArbExpiryDeltas == {NoTime, HourSeconds + 60, 2 * HourSeconds, 30 * HourSeconds}
\* <<dnd_start_hour, dnd_end_hour>>: the default overnight window, an empty
\* window, a daytime window, and a degenerate row covering all 24 hours
ArbDndWindows == {<<22, 8>>, <<0, 0>>, <<9, 17>>, <<0, 24>>}
HeatTie == [i \in 1..24 |-> IF i \in {11, 19} THEN 90 ELSE 30]
\* the default, two tied peaks (10h and 18h), and a malformed list
ArbHeatmaps == {FlatHeatmap, HeatTie, <<50>>}
ArbTopic == "promo_offer"
ArbRuleName == "R1"

ArbDedupSteps == <<ReasonStep("L1-Dedup", "exact_duplicate", "PASS"),
                   ReasonStep("L1-Dedup", "topic_cooldown", "PASS")>>
ArbRuleSteps(rule_decision) ==
    IF rule_decision = "now" THEN <<ReasonStep("L2-Rules", RuleOverride(ArbRuleName), "FORCE_NOW")>>
    ELSE IF rule_decision = "never" THEN <<ReasonStep("L2-Rules", RuleOverride(ArbRuleName), "FORCE_NEVER")>>
    ELSE IF rule_decision = "later" THEN <<ReasonStep("L2-Rules", RuleOverride(ArbRuleName), "DEFER")>>
    ELSE <<ReasonStep("L2-Rules", "rules_evaluation", "NO_MATCH")>>
ArbAiStep == ReasonStep("L4-AIScorer", "groq_llm", "LATER")

ArbInputs ==
    [priority_hint : ArbPriorities,
     expiry_delta : ArbExpiryDeltas,
     rule_decision : ArbRuleDecisions,
     score : ArbScores,
     opted_out : BOOLEAN,
     hourly_hit : BOOLEAN,
     daily_hit : BOOLEAN,
     dnd_active : BOOLEAN,
     dnd_window : ArbDndWindows,
     heatmap : ArbHeatmaps,
     now : ArbNows,
     phase : {"input"}]

ArbEvent(in) ==
    [event_type |-> ArbTopic,
     priority_hint |-> in.priority_hint,
     expires_at |-> IF in.expiry_delta = NoTime THEN NoTime ELSE in.now + in.expiry_delta]

ArbCtx(in) ==
    [notifications_last_1h |-> IF in.hourly_hit THEN default_hourly_cap ELSE default_hourly_cap - 1,
     notifications_last_24h |-> IF in.daily_hit THEN default_daily_cap ELSE default_daily_cap - 1,
     hourly_cap |-> default_hourly_cap,
     daily_cap |-> default_daily_cap,
     dnd_active |-> in.dnd_active,
     dnd_start_hour |-> in.dnd_window[1],
     dnd_end_hour |-> in.dnd_window[2],
     opted_out_topics |-> IF in.opted_out THEN {ArbTopic} ELSE {},
     engagement_heatmap |-> in.heatmap]

ArbRuleNameOf(in) == IF in.rule_decision = "none" THEN "none" ELSE ArbRuleName

InitArb ==
    /\ arbIn \in ArbInputs
    /\ arbOut = NotRun
    /\ sendOut = NoTime
    /\ PipeIdle(NumEvals)
    /\ RulesIdle /\ FnIdle /\ ScorerIdle

Arbitrate ==
    /\ arbIn.phase = "input"
    /\ arbOut' = arbitrate(ArbEvent(arbIn), arbIn.rule_decision, ArbRuleNameOf(arbIn),
                           arbIn.score, ArbCtx(arbIn), ArbRuleSteps(arbIn.rule_decision),
                           ArbDedupSteps, ArbAiStep, arbIn.now)
    /\ arbIn' = [arbIn EXCEPT !.phase = "arbitrated"]
    /\ UNCHANGED sendOut
    /\ UNCHANGED pipeVars
    /\ UNCHANGED <<rulesVars, fnVars, scorerVars>>

ComputeSendTime ==
    /\ arbIn.phase = "arbitrated"
    /\ sendOut' = compute_optimal_send_time(ArbCtx(arbIn), ArbEvent(arbIn).expires_at, arbIn.now)
    /\ arbIn' = [arbIn EXCEPT !.phase = "scheduled"]
    /\ UNCHANGED arbOut
    /\ UNCHANGED pipeVars
    /\ UNCHANGED <<rulesVars, fnVars, scorerVars>>

NextArb == Arbitrate \/ ComputeSendTime

SpecArb == InitArb /\ [][NextArb]_vars

\* ------------------------------------------------------------------------
\* Properties of the arbiter (checked under SpecArb)

ArbRan == arbOut # NotRun
SendRan == arbIn.phase = "scheduled"
ArbCritical == arbIn.priority_hint = "critical"

L5Steps(chain) == {i \in 1..Len(chain) : chain[i].layer = "L5-Arbiter"}

\* C4: a rule verdict "now" yields NOW and a rule verdict "never" yields
\* NEVER, with no scheduled_at and override "rule:{name}", whatever the
\* score, the opt-outs, the caps, DND and the priority hint are.
C4_HardRuleWins ==
    (ArbRan /\ arbIn.rule_decision \in {"now", "never"}) =>
        /\ arbOut.decision = arbIn.rule_decision
        /\ arbOut.scheduled_at = NoTime
        /\ arbOut.override = "rule:" \o ArbRuleName

\* C4 witness: force-now with the lowest score, an opted-out topic, both
\* caps hit and DND active.
C4_Witness ==
    /\ ArbRan /\ arbIn.rule_decision = "now" /\ arbIn.score = 0
    /\ arbIn.opted_out /\ arbIn.hourly_hit /\ arbIn.daily_hit /\ arbIn.dnd_active
    /\ arbOut.decision = "now"

\* C5: a critical event with no rule verdict and a topic that is not opted
\* out is never deferred for DND or the hourly cap nor suppressed for the
\* daily cap; with score >= 0.75 it is NOW with no scheduled_at.
C5_CriticalBypasses ==
    (ArbRan /\ ArbCritical /\ arbIn.rule_decision = "none" /\ ~arbIn.opted_out) =>
        /\ arbOut.override \notin {"dnd_active", "fatigue_hourly_cap", "fatigue_daily_cap"}
        /\ \A i \in L5Steps(arbOut.reason_chain) :
               arbOut.reason_chain[i].check \notin {"dnd_active", "hourly_cap", "daily_cap"}
        /\ arbIn.score >= ai_score_now_threshold =>
               (arbOut.decision = "now" /\ arbOut.scheduled_at = NoTime)

\* C5 witness: critical, score 0.75, DND active and both caps hit, sent NOW.
C5_Witness ==
    /\ ArbRan /\ ArbCritical /\ arbIn.rule_decision = "none" /\ ~arbIn.opted_out
    /\ arbIn.dnd_active /\ arbIn.hourly_hit /\ arbIn.daily_hit
    /\ arbIn.score = ai_score_now_threshold
    /\ arbOut.decision = "now"

\* The ten rows of the precedence table: <<condition, decision, override>>.
PrecedenceRows ==
    <<  <<arbIn.rule_decision = "now", "now", "rule:" \o ArbRuleName>>,
        <<arbIn.rule_decision = "never", "never", "rule:" \o ArbRuleName>>,
        <<arbIn.opted_out, "never", "user_opt_out">>,
        <<arbIn.hourly_hit /\ ~ArbCritical /\ arbIn.score < 80, "later", "fatigue_hourly_cap">>,
        <<arbIn.daily_hit /\ ~ArbCritical, "never", "fatigue_daily_cap">>,
        <<arbIn.dnd_active /\ ~ArbCritical, "later", "dnd_active">>,
        <<arbIn.rule_decision = "later", "later", "rule:" \o ArbRuleName>>,
        <<arbIn.score >= 75 \/ ArbCritical, "now", "none">>,
        <<arbIn.score >= 40, "later", "none">>,
        <<TRUE, "never", "none">>  >>

FirstMatchingRow ==
    PrecedenceRows[CHOOSE i \in 1..10 :
                       /\ PrecedenceRows[i][1]
                       /\ \A j \in 1..(i - 1) : ~PrecedenceRows[j][1]]

\* C6: arbitrate returns the decision and override of the first matching
\* row of the 10-step precedence, appends exactly one L5-Arbiter step (the
\* last of the chain), and sets scheduled_at iff the decision is LATER.
C6_FirstMatchWins ==
    ArbRan =>
        /\ arbOut.decision = FirstMatchingRow[2]
        /\ arbOut.override = FirstMatchingRow[3]
        /\ Cardinality(L5Steps(arbOut.reason_chain)) = 1
        /\ arbOut.reason_chain[Len(arbOut.reason_chain)].layer = "L5-Arbiter"
        /\ (arbOut.scheduled_at # NoTime) <=> (arbOut.decision = "later")

\* C6 witness: the hourly-cap row decides (rows 1-3 do not match, the
\* daily cap and DND would match later rows).
C6_Witness ==
    /\ ArbRan /\ arbIn.rule_decision = "later" /\ ~arbIn.opted_out
    /\ arbIn.hourly_hit /\ arbIn.daily_hit /\ arbIn.dnd_active
    /\ ~ArbCritical /\ arbIn.score = 79
    /\ arbOut.decision = "later" /\ arbOut.override = "fatigue_hourly_cap"
    /\ arbOut.scheduled_at # NoTime

\* Candidates of the send-time scan, stated from the inputs alone.
SendDnd(hour) ==
    IF arbIn.dnd_window[1] > arbIn.dnd_window[2]
    THEN hour >= arbIn.dnd_window[1] \/ hour < arbIn.dnd_window[2]
    ELSE arbIn.dnd_window[1] <= hour /\ hour < arbIn.dnd_window[2]
SendHeat(hour) == IF Len(arbIn.heatmap) = 24 THEN arbIn.heatmap[hour + 1] ELSE 100
SendCandidate(k) == arbIn.now + k * HourSeconds
NonDndOffsets == {k \in 1..24 : ~SendDnd(HourOf(SendCandidate(k)))}
BestOffset ==
    CHOOSE k \in NonDndOffsets :
        \A j \in NonDndOffsets :
            \/ SendHeat(HourOf(SendCandidate(k))) > SendHeat(HourOf(SendCandidate(j)))
            \/ /\ SendHeat(HourOf(SendCandidate(k))) = SendHeat(HourOf(SendCandidate(j)))
               /\ k <= j
SendTarget == IF NonDndOffsets = {} THEN arbIn.now + HourSeconds ELSE SendCandidate(BestOffset)
SendExpires == IF arbIn.expiry_delta = NoTime THEN NoTime ELSE arbIn.now + arbIn.expiry_delta
SendClamped == SendExpires # NoTime /\ SendTarget > SendExpires

\* C7 as amended: when expires_at does not force the clamp, the returned
\* instant lies in the hour of the non-DND candidate with the highest
\* heatmap value (earliest offset on ties), so its hour is outside the DND
\* window unless all 24 candidates are in DND; when expires_at is earlier
\* than that candidate the result is expires_at - 5 min rounded down to a
\* quarter hour.
C7_SendTimeAvoidsDnd ==
    SendRan =>
        /\ (~SendClamped /\ NonDndOffsets # {}) =>
               /\ ~SendDnd(HourOf(sendOut))
               /\ sendOut \div HourSeconds = SendTarget \div HourSeconds
        /\ SendClamped =>
               /\ sendOut <= SendExpires - 5 * 60
               /\ SendExpires - 5 * 60 - sendOut < 15 * 60

\* C7 witness: an overnight DND window, two tied heatmap peaks, no clamp.
C7_Witness ==
    /\ SendRan /\ arbIn.dnd_window = <<22, 8>> /\ arbIn.heatmap = HeatTie
    /\ ~SendClamped /\ HourOf(arbIn.now) = 12
    /\ HourOf(sendOut) = 18

\* C7 as stated: for every expires_at the returned hour is outside the DND
\* window unless all 24 candidates are in DND, and it is the hour of the
\* best non-DND candidate.
C7_Original ==
    (SendRan /\ NonDndOffsets # {}) =>
        /\ ~SendDnd(HourOf(sendOut))
        /\ HourOf(sendOut) = HourOf(SendTarget)

\* C8 as amended: the scheduled_at of a LATER decision has minute in
\* {0, 15, 30, 45} and zero seconds; when expires_at is given it is
\* <= expires_at, and <= expires_at - 5 min whenever the chosen candidate
\* was later than expires_at.
C8_ScheduledBeforeExpiry ==
    (ArbRan /\ arbOut.decision = "later") =>
        /\ MinuteOf(arbOut.scheduled_at) \in {0, 15, 30, 45}
        /\ SecondOf(arbOut.scheduled_at) = 0
        /\ SendExpires # NoTime => arbOut.scheduled_at <= SendExpires
        /\ SendClamped => arbOut.scheduled_at <= SendExpires - 5 * 60

\* C8 witness: a LATER decision whose candidate was clamped by expires_at.
C8_Witness ==
    /\ ArbRan /\ arbOut.decision = "later" /\ SendClamped
    /\ SecondOf(arbIn.now) # 0
    /\ arbOut.scheduled_at <= SendExpires - 5 * 60

\* C8 as stated: whenever expires_at is given, scheduled_at is
\* <= expires_at - 5 min (and on a quarter hour with zero seconds).
C8_Original ==
    (ArbRan /\ arbOut.decision = "later") =>
        /\ MinuteOf(arbOut.scheduled_at) \in {0, 15, 30, 45}
        /\ SecondOf(arbOut.scheduled_at) = 0
        /\ SendExpires # NoTime => arbOut.scheduled_at <= SendExpires - 5 * 60

\* ------------------------------------------------------------------------
\* Claims about the pipeline (Spec, SpecForceNow)

Returned_(p) == results[p] # NoResult
SameFingerprint(p, q) ==
    /\ evt[p] # NoEvent /\ evt[q] # NoEvent
    /\ compute_fingerprint(evt[p]) = compute_fingerprint(evt[q])
AuditRowsOf(event_id) == {r \in BagToSet(auditLog) : r.event_id = event_id}
ExactlyOneAuditRow(event_id) ==
    \E r \in AuditRowsOf(event_id) :
        /\ AuditRowsOf(event_id) = {r}
        /\ CopiesIn(r, auditLog) = 1
        /\ Len(r.reason_chain) > 0
LastStep(chain) == chain[Len(chain)]
ExactDuplicateResult(p) ==
    /\ results[p] # NoResult
    /\ results[p].decision = "never"
    /\ LastStep(results[p].reason_chain) = ReasonStep("L1-Dedup", "exact_duplicate", "SUPPRESS")

\* C1: every evaluation that has returned a DecisionResult, the suppressions
\* at the L0 expiry check and at the L1 dedup stage included, has exactly
\* one audit_log row with its event_id, and that row's reason_chain is not
\* empty.
C1_EveryResultAudited ==
    \A p \in DOMAIN pc : Returned_(p) => ExactlyOneAuditRow(p)

\* C1, the failing case: an evaluation has returned NEVER from the L0 expiry
\* check and audit_log has no row for it.
C1_Witness ==
    \E p \in DOMAIN pc :
        /\ results[p] = expired_result(p)
        /\ AuditRowsOf(p) = {}

\* C2 (as amended): an evaluation that runs its exact check less than
\* exact_dedup_ttl_seconds after another evaluation registered the same
\* fingerprint returns NEVER with the single step exact_duplicate/SUPPRESS,
\* whatever the registering evaluation went on to decide.
C2_RegisteredDuplicateSuppressed ==
    \A q \in DOMAIN pc : \A p \in DOMAIN pc \ {q} :
        ( /\ loc[q].exact # "none"
          /\ p \in loc[q].saw
          /\ SameFingerprint(p, q)
          /\ loc[q].eval_at - loc[p].set_at < exact_dedup_ttl_seconds )
        => ( /\ loc[q].exact = "dup"
             /\ results[q] = dedup_suppressed_result(q,
                    <<ReasonStep("L1-Dedup", "exact_duplicate", "SUPPRESS")>>) )

\* C2 witness: the first evaluation of an event was decided LATER and had
\* returned; the second, half an hour later, is suppressed as exact_duplicate.
C2_Witness ==
    \E q \in DOMAIN pc : \E p \in DOMAIN pc \ {q} :
        /\ evt[p] = evt[q]
        /\ p \in loc[q].after
        /\ results[p] # NoResult /\ results[p].decision = "later"
        /\ loc[q].eval_at = loc[p].eval_at + TickSeconds
        /\ ExactDuplicateResult(q)

\* C2 (as stated): when the same event is evaluated twice, the second
\* evaluation starting after the first has returned and less than 3600 s
\* after it, the second returns NEVER with exact_duplicate.
C2_Original ==
    \A q \in DOMAIN pc : \A p \in DOMAIN pc \ {q} :
        ( /\ evt[p] = evt[q]
          /\ p \in loc[q].after
          /\ Returned_(q)
          /\ loc[q].eval_at - loc[p].eval_at < exact_dedup_ttl_seconds )
        => ExactDuplicateResult(q)

\* C3: of two evaluations with the same fingerprint that run their exact
\* checks less than exact_dedup_ttl_seconds apart, at most one passes the
\* exact tier.
C3_AtMostOnePasses ==
    \A p \in DOMAIN pc : \A q \in DOMAIN pc \ {p} :
        ( /\ SameFingerprint(p, q)
          /\ loc[p].exact = "pass" /\ loc[q].exact = "pass" )
        => ( \/ loc[p].eval_at - loc[q].eval_at >= exact_dedup_ttl_seconds
             \/ loc[q].eval_at - loc[p].eval_at >= exact_dedup_ttl_seconds )

\* C3, the failing case: two evaluations of one fingerprint both read the
\* key as absent at the same instant and both registered it.
C3_Witness ==
    \E p \in DOMAIN pc : \E q \in DOMAIN pc \ {p} :
        /\ SameFingerprint(p, q)
        /\ loc[p].exact = "pass" /\ loc[q].exact = "pass"
        /\ loc[p].eval_at = loc[q].eval_at
        /\ loc[p].set_at # NoTime /\ loc[q].set_at # NoTime

\* The last increment of the user's that found the counter key absent
LastCreation(log, field) ==
    CHOOSE i \in 1..Len(log) : log[i][field] /\ \A j \in (i + 1)..Len(log) : ~log[j][field]

CounterKeyPinned(user_id, k, field, ttl) ==
    KvLive(kv, k, clock) =>
        /\ \E i \in 1..Len(incrLog[user_id]) : incrLog[user_id][i][field]
        /\ LET i == LastCreation(incrLog[user_id], field)
           IN  /\ kv[k].exp = incrLog[user_id][i].at + ttl
               /\ clock < kv[k].exp /\ kv[k].exp - clock <= ttl
               /\ kv[k].val >= Len(incrLog[user_id]) - i + 1

C10_OnlySuccessfulNow ==
    [][\A u \in Users :
          ( \/ KvCount(kv', key_count_1h(u), clock') > KvCount(kv, key_count_1h(u), clock)
            \/ KvCount(kv', key_count_24h(u), clock') > KvCount(kv, key_count_24h(u), clock) )
          => \E p \in DOMAIN pc :
                 /\ pc[p] = "incr" /\ pc'[p] # "incr"
                 /\ evt[p].user_id = u
                 /\ loc[p].decision = "now"
                 /\ loc[p].published = "ok"]_vars

\* C10, the failing case: a NOW dispatch whose publish failed has returned,
\* the bus holds no message, and the user's counters stand at 1.
C10_Witness ==
    \E p \in DOMAIN pc :
        /\ Returned_(p) /\ results[p].decision = "now"
        /\ loc[p].published = "failed"
        /\ bus = EmptyBag
        /\ KvCount(kv, key_count_1h(evt[p].user_id), clock) = 1
        /\ KvCount(kv, key_count_24h(evt[p].user_id), clock) = 1

\* ------------------------------------------------------------------------
\* Claims about the cooldown tier and the dedup steps (Spec)

NonCritical(p) == evt[p] # NoEvent /\ evt[p].priority_hint # "critical"
Critical(p) == evt[p] # NoEvent /\ evt[p].priority_hint = "critical"
SameTopic(p, q) ==
    /\ evt[p] # NoEvent /\ evt[q] # NoEvent
    /\ evt[p].user_id = evt[q].user_id
    /\ evt[p].event_type = evt[q].event_type
StepsOf(chain, check) ==
    {i \in 1..Len(chain) : chain[i].layer = "L1-Dedup" /\ chain[i].check = check}
\* The evaluation has returned and its chain shows that it reached tier 3.
ReachedCooldownTier(p) ==
    Returned_(p) /\ StepsOf(results[p].reason_chain, "topic_cooldown") # {}
CooldownSuppressed(p) ==
    /\ Returned_(p)
    /\ results[p].decision = "never"
    /\ LastStep(results[p].reason_chain) = ReasonStep("L1-Dedup", "topic_cooldown", "DEFER")

\* C11: once a non-critical event of a (user_id, event_type) has been
\* dispatched NOW and dispatch has returned, every non-critical event of the
\* same (user_id, event_type) evaluated afterwards, less than
\* default_cooldown_seconds later, that gets past the exact and near tiers
\* is suppressed with topic_cooldown and decision NEVER.
C11_CooldownSuppresses ==
    \A q \in DOMAIN pc : \A p \in DOMAIN pc \ {q} :
        ( /\ NonCritical(p) /\ NonCritical(q) /\ SameTopic(p, q)
          /\ p \in loc[q].after
          /\ results[p].decision = "now"
          /\ loc[q].eval_at - loc[p].eval_at < default_cooldown_seconds
          /\ ReachedCooldownTier(q) )
        => CooldownSuppressed(q)

\* C11 witness: EvPromo was sent NOW; EvFlash, same user and topic, another
\* fingerprint, passed tiers 1 and 2 and was suppressed by the cooldown.
C11_Witness ==
    \E q \in DOMAIN pc : \E p \in DOMAIN pc \ {q} :
        /\ evt[p] = EvPromo /\ evt[q] = EvFlash
        /\ p \in loc[q].after
        /\ results[p].decision = "now"
        /\ CooldownSuppressed(q)
        /\ Len(results[q].reason_chain) = 3

CooldownKeys == {key_cooldown(e.user_id, e.event_type) : e \in Events}
CooldownStepResults(p) ==
    {results[p].reason_chain[i].result : i \in StepsOf(results[p].reason_chain, "topic_cooldown")}

\* C12, the tier-3 part: a critical evaluation that reached tier 3 has the
\* step topic_cooldown/BYPASS and is not suppressed by the cooldown.
C12_TierThreeBypass ==
    \A q \in DOMAIN pc :
        (Critical(q) /\ ReachedCooldownTier(q)) =>
            /\ CooldownStepResults(q) = {"BYPASS"}
            /\ ~CooldownSuppressed(q)

\* C12, the steps of a critical evaluation: none of them creates or changes
\* a cooldown key; its exact check suppresses on a registered fingerprint
\* and its near-duplicate scan suppresses on a similar signature.
C12_CriticalStep(q) ==
    (Critical(q) /\ pc'[q] # pc[q]) =>
        /\ \A k \in CooldownKeys :
               /\ (k \in DOMAIN kv') = (k \in DOMAIN kv)
               /\ k \in DOMAIN kv => kv'[k] = kv[k]
        /\ ( /\ pc[q] = "l0"
             /\ ~(evt[q].expires_at # NoTime /\ evt[q].expires_at < clock)
             /\ KvGet(kv, key_exact_dedup(compute_fingerprint(evt[q])), clock) # "none" )
           => ( /\ pc'[q] = "done"
                /\ LastStep(results'[q].reason_chain)
                       = ReasonStep("L1-Dedup", "exact_duplicate", "SUPPRESS") )
        /\ (pc[q] = "near_scan" /\ NearDuplicateFound(kv, evt[q], clock))
           => ( /\ pc'[q] = "done"
                /\ LastStep(results'[q].reason_chain)
                       = ReasonStep("L1-Dedup", "near_duplicate_lsh", "SUPPRESS") )

\* C12: a critical event never creates or refreshes a cooldown key, is never
\* suppressed by one (tier 3 reports BYPASS), and is still suppressed by the
\* exact-duplicate and near-duplicate tiers.
C12_CriticalBypassesCooldownOnly ==
    /\ []C12_TierThreeBypass
    /\ [][\A q \in DOMAIN pc : C12_CriticalStep(q)]_vars

\* C12 witness: EvPromo was sent NOW at 21:00 and set the cooldown; the
\* critical EvPayment of the same topic, evaluated at 21:30, bypassed it, was
\* sent NOW, and the cooldown key still expires an hour after 21:00.
C12_Witness ==
    \E q \in DOMAIN pc : \E p \in DOMAIN pc \ {q} :
        /\ evt[p] = EvPromo /\ evt[q] = EvPayment
        /\ p \in loc[q].after
        /\ results[p].decision = "now" /\ results[q].decision = "now"
        /\ loc[q].eval_at = loc[p].eval_at + TickSeconds
        /\ CooldownStepResults(q) = {"BYPASS"}
        /\ KvLive(kv, key_cooldown("u1", "promo_offer"), clock)
        /\ kv[key_cooldown("u1", "promo_offer")].exp = loc[p].eval_at + default_cooldown_seconds

DedupTiers == {"exact_duplicate", "near_duplicate_lsh", "topic_cooldown"}
PassedDedup(p) ==
    Returned_(p) /\ LastStep(results[p].reason_chain).layer = "L5-Arbiter"

\* The checks of the L1-Dedup steps of a chain, in order
RECURSIVE DedupChecks(_)
DedupChecks(chain) ==
    IF chain = <<>> THEN <<>>
    ELSE IF Head(chain).layer = "L1-Dedup"
         THEN <<Head(chain).check>> \o DedupChecks(Tail(chain))
         ELSE DedupChecks(Tail(chain))
\* The tiers that run for an event, in order
TiersFor(event) ==
    IF event.long_message
    THEN <<"exact_duplicate", "near_duplicate_lsh", "topic_cooldown">>
    ELSE <<"exact_duplicate", "topic_cooldown">>
DedupSuppressed(p) ==
    /\ Returned_(p)
    /\ LastStep(results[p].reason_chain).layer = "L1-Dedup"
    /\ LastStep(results[p].reason_chain).result \in {"SUPPRESS", "DEFER"}

\* C13 (as stated): the reason chain of every evaluation that passed
\* deduplication has an L1-Dedup step for each of the three tiers, whatever
\* the length of the message.
C13_Original ==
    \A p \in DOMAIN pc :
        PassedDedup(p) =>
            \A check \in DedupTiers : StepsOf(results[p].reason_chain, check) # {}

\* C13 (as amended): an evaluation that passed deduplication has one
\* L1-Dedup step per tier that ran, in the order exact, near, cooldown: all
\* three when the message is longer than 20 characters, exact and cooldown
\* only when it is not.  A dedup-suppressed evaluation has the steps of the
\* tiers up to the suppressing one, all passed but the last.
C13_StepsPerTierRun ==
    \A p \in DOMAIN pc :
        /\ PassedDedup(p) => DedupChecks(results[p].reason_chain) = TiersFor(evt[p])
        /\ DedupSuppressed(p) =>
              LET chain == results[p].reason_chain
              IN  /\ Len(chain) <= Len(TiersFor(evt[p]))
                  /\ DedupChecks(chain) = SubSeq(TiersFor(evt[p]), 1, Len(chain))
                  /\ \A i \in 1..(Len(chain) - 1) : chain[i].result \in {"PASS", "BYPASS"}

\* C13 witness: a long message passed with three dedup steps, a short one
\* with two (no near_duplicate_lsh step).
C13_Witness ==
    \E p \in DOMAIN pc : \E q \in DOMAIN pc \ {p} :
        /\ PassedDedup(p) /\ PassedDedup(q)
        /\ evt[p].long_message /\ ~evt[q].long_message
        /\ Len(DedupChecks(results[p].reason_chain)) = 3
        /\ DedupChecks(results[q].reason_chain) = <<"exact_duplicate", "topic_cooldown">>

\* ------------------------------------------------------------------------
\* SpecRules: the in-process rules cache, two callers of get_active_rules
\* and the rule CRUD handlers (api/rules.py)

RulesTickSeconds == 20
MaxRulesClock == 40

\* The rows the CRUD requests of this specification write
CrudRows == {RNow, Inactive(RNow), RQuiet, Inactive(RQuiet)}

\* create_rule: 409 when the name exists, else the row is added
create_rule(table, row) ==
    IF \E r \in table : r.rule_name = row.rule_name THEN [status |-> 409, table |-> table]
    ELSE [status |-> 201, table |-> table \cup {row}]
\* update_rule: 404 when the id is unknown, else the row is overwritten
update_rule(table, rule_id, row) ==
    IF ~\E r \in table : r.id = rule_id THEN [status |-> 404, table |-> table]
    ELSE [status |-> 200,
          table |-> {r \in table : r.id # rule_id} \cup {[row EXCEPT !.id = rule_id]}]
\* toggle_rule: 404 when the id is unknown, else is_active is negated
toggle_rule(table, rule_id) ==
    IF ~\E r \in table : r.id = rule_id THEN [status |-> 404, table |-> table]
    ELSE [status |-> 200,
          table |-> {IF r.id = rule_id THEN [r EXCEPT !.is_active = ~r.is_active] ELSE r : r \in table}]

InitRules ==
    /\ arbIn = [phase |-> "off"]
    /\ arbOut = NotRun
    /\ sendOut = NoTime
    /\ PipeIdle(NumEvals)
    /\ RulesIdle /\ FnIdle /\ ScorerIdle

\* get_active_rules up to its only await: the clock is read, the age of the
\* cache computed; a stale cache with a session sends the SELECT (answered
\* from the rows of this instant), a fresh one is returned as it is.
GetRulesBegin(c, has_db) ==
    /\ loader[c].pc \in {"idle", "returned"}
    /\ LET cache_age == IF rulesCache.loaded_at = NoTime THEN NeverLoadedAge
                        ELSE clock - rulesCache.loaded_at
           first == has_db /\ crud.invalidated
       IN  IF cache_age > _CACHE_TTL_SECONDS /\ has_db
           THEN \E rows \in load_rules_from_db(ruleStore) :
                   loader' = [loader EXCEPT ![c] =
                       [pc |-> "loading", now |-> clock, snapshot |-> rows, has_db |-> has_db,
                        after_invalidate |-> first, reloaded |-> TRUE, store_changed |-> FALSE]]
           ELSE loader' = [loader EXCEPT ![c] =
                       [pc |-> "returned", got |-> rulesCache.rules, has_db |-> has_db,
                        age |-> cache_age,
                        after_invalidate |-> first, reloaded |-> FALSE, store_changed |-> FALSE]]
    /\ crud' = IF has_db THEN [crud EXCEPT !.invalidated = FALSE] ELSE crud
    /\ UNCHANGED <<ruleStore, rulesCache, fnVars, scorerVars, arbVars, pipeVars>>

\* get_active_rules after the await: the rows replace the cache, the instant
\* read before the await becomes _rules_loaded_at, the cache is returned.
GetRulesLoaded(c) ==
    /\ loader[c].pc = "loading"
    /\ rulesCache' = [rules |-> loader[c].snapshot, loaded_at |-> loader[c].now]
    /\ loader' = [loader EXCEPT ![c] =
           [pc |-> "returned", got |-> loader[c].snapshot,
            has_db |-> loader[c].has_db, age |-> 0,
            after_invalidate |-> loader[c].after_invalidate, reloaded |-> TRUE,
            store_changed |-> loader[c].store_changed]]
    /\ UNCHANGED <<ruleStore, crud, fnVars, scorerVars, arbVars, pipeVars>>

\* create_rule, update_rule and toggle_rule up to the end of db.flush(): the
\* row is written.  A request answered 409 or 404 changes nothing.
CrudFlush(response) ==
    /\ crud.pc = "idle"
    /\ response.status \in {200, 201}
    /\ response.table # ruleStore
    /\ ruleStore' = response.table
    /\ crud' = [crud EXCEPT !.pc = "flushed"]
    /\ loader' = [c \in Callers |->
                    IF loader[c].pc = "idle" THEN loader[c]
                    ELSE [loader[c] EXCEPT !.store_changed = TRUE]]
    /\ UNCHANGED <<rulesCache, fnVars, scorerVars, arbVars, pipeVars>>

\* invalidate_rules_cache, called by the handler after the flush
invalidate_rules_cache(cache) == [cache EXCEPT !.loaded_at = NoTime]

CrudInvalidate ==
    /\ crud.pc = "flushed"
    /\ rulesCache' = invalidate_rules_cache(rulesCache)
    /\ crud' = [pc |-> "idle", invalidated |-> TRUE]
    /\ UNCHANGED <<ruleStore, loader, fnVars, scorerVars, arbVars, pipeVars>>

RulesTick ==
    /\ clock + RulesTickSeconds <= ClockStart + MaxRulesClock
    /\ clock' = clock + RulesTickSeconds
    /\ UNCHANGED <<rulesVars, fnVars, scorerVars, arbVars, kv, pc, evt, loc, results, auditLog,
                   eventRows, batches, bus, scheduler, incrLog>>

NextRules ==
    \/ \E c \in Callers : \E has_db \in BOOLEAN : GetRulesBegin(c, has_db)
    \/ \E c \in Callers : GetRulesLoaded(c)
    \/ \E row \in CrudRows : CrudFlush(create_rule(ruleStore, row))
    \/ \E row \in CrudRows : CrudFlush(update_rule(ruleStore, row.id, row))
    \/ \E row \in CrudRows : CrudFlush(toggle_rule(ruleStore, row.id))
    \/ CrudInvalidate
    \/ RulesTick

SpecRules == InitRules /\ [][NextRules]_vars

\* C14: the first get_active_rules call with a session after an
\* invalidate_rules_cache call reloads the rules from the store, a list that
\* is not reloaded is at most 30 s old, and the list the first call after the
\* invalidation returns is the store's active rules (the change the CRUD
\* handler made is reflected) unless the store changed again meanwhile.
C14_ReloadAfterInvalidate ==
    \A c \in Callers :
        loader[c].pc = "returned" /\ loader[c].has_db =>
            /\ loader[c].after_invalidate => loader[c].reloaded
            /\ ~loader[c].reloaded => loader[c].age <= _CACHE_TTL_SECONDS
            /\ loader[c].after_invalidate /\ ~loader[c].store_changed =>
                  loader[c].got \in load_rules_from_db(ruleStore)

\* C14, the failing case: a call made after the invalidation was served the
\* cached list, which a load that began before the change had put back, and
\* the list is not the store's active rules.
C14_Witness ==
    \E c \in Callers :
        /\ loader[c].pc = "returned" /\ loader[c].has_db
        /\ loader[c].after_invalidate /\ ~loader[c].reloaded
        /\ ~loader[c].store_changed
        /\ loader[c].got \notin load_rules_from_db(ruleStore)

\* ------------------------------------------------------------------------
\* SpecEval: evaluate_rules applied to the rules loaded from a table, an
\* event and a UTC hour

MaxTableRows == 4
CatalogRows == {RNow, RNever, RChannel, RQuiet, RQuietDay, RCooldown}
RuleTables ==
    {t \in SUBSET (CatalogRows \cup {Inactive(r) : r \in CatalogRows}) :
        /\ Cardinality(t) <= MaxTableRows
        /\ \A a, b \in t : a.id = b.id => a = b}

EvCriticalBilling == RuleEvent("payment_failed", "billing", "push", "critical", "u1", NoMetadata)
EvPromoSms == RuleEvent("promo_offer", "mkt", "sms", "low", "u1", [amount |-> VInt(10)])
EvPromoPush == RuleEvent("promo_offer", "mkt", "push", "none", "u1", [amount |-> VInt(0)])
EvCriticalBulk == RuleEvent("payment_failed", "mkt", "email", "critical", "u1", [amount |-> VInt(5)])
EvalEvents == {EvCriticalBilling, EvPromoSms, EvPromoPush, EvCriticalBulk}
EvalHours == {3, 8, 12, 22}

InitEval ==
    /\ arbIn = [phase |-> "off"]
    /\ arbOut = NotRun
    /\ sendOut = NoTime
    /\ PipeIdle(NumEvals)
    /\ RulesIdle /\ ScorerIdle
    /\ callIn \in [phase : {"input"}, table : RuleTables, event : EvalEvents, now_hour : EvalHours]
    /\ callOut = NotRun

\* evaluate_rules with a stale cache: the rules are loaded, then evaluated
EvaluateRules ==
    /\ callIn.phase = "input"
    /\ \E rules \in load_rules_from_db(callIn.table) :
          LET r == evaluate_rules(rules, callIn.event, callIn.now_hour)
          IN  callOut' = [decision |-> r.decision, rule_name |-> r.rule_name,
                          steps |-> r.steps, rules |-> rules]
    /\ callIn' = [callIn EXCEPT !.phase = "evaluated"]
    /\ UNCHANGED <<rulesVars, scorerVars, arbVars, pipeVars>>

NextEval == EvaluateRules

SpecEval == InitEval /\ [][NextEval]_vars

Range(f) == {f[i] : i \in DOMAIN f}

\* The claim's reading of a rule: it matches, and it forces an outcome
EvalMatches(rule) == matches_conditions(callIn.event, rule.conditions) = "pass"
EvalInWindow(rule) ==
    LET start == IF "start_hour" \in DOMAIN rule.action_params THEN rule.action_params.start_hour ELSE 22
        end == IF "end_hour" \in DOMAIN rule.action_params THEN rule.action_params.end_hour ELSE 8
        h == callIn.now_hour
    IN  IF start > end THEN h \in (start..23) \cup (0..(end - 1)) ELSE h \in start..(end - 1)
EvalAllowed(rule) ==
    IF "allowed_channels" \in DOMAIN rule.action_params
    THEN rule.action_params.allowed_channels ELSE {}
EvalForced(rule) ==
    CASE rule.rule_type = "force_now" -> "now"
      [] rule.rule_type = "force_never" -> "never"
      [] rule.rule_type = "quiet_hours" /\ EvalInWindow(rule) -> "later"
      [] rule.rule_type = "channel_override" /\ callIn.event.channel \notin EvalAllowed(rule) -> "never"
      [] OTHER -> "none"
EvalForcing(rules) == {i \in DOMAIN rules : EvalMatches(rules[i]) /\ EvalForced(rules[i]) # "none"}
EvalFirst(rules) == CHOOSE i \in EvalForcing(rules) : \A j \in EvalForcing(rules) : i <= j
EvalStepResult(decision, rule_type) ==
    CASE rule_type = "force_now" -> "FORCE_NOW"
      [] decision = "later" -> "DEFER"
      [] OTHER -> "FORCE_NEVER"
\* The steps of the matching rules among the first n that did not force
RECURSIVE EvalNoForceSteps(_, _)
EvalNoForceSteps(rules, n) ==
    IF n = 0 THEN <<>>
    ELSE EvalNoForceSteps(rules, n - 1) \o
         (IF EvalMatches(rules[n])
          THEN <<ReasonStep("L2-Rules", "rule:" \o rules[n].rule_name, "MATCHED_NO_FORCE")>>
          ELSE <<>>)

MaxConditions == 2
MatchItems ==
    {CondList("event_type", {VStr("payment_failed"), VStr("promo")}),
     CondScalar("channel", VStr("push")),
     CondScalar("priority_hint", VStr("low")),
     CondList("priority_hint", {VNone, VStr("low")}),
     CondScalar("meta.region", VNone),
     CondList("meta.region", {VStr("u1")}),
     CondOps("event_type", <<OpItem("contains", VStr("PAYMENT"), {})>>),
     CondOps("meta.amount", <<OpItem("gte", VInt(5), {}), OpItem("lte", VInt(10), {})>>),
     CondOps("meta.region", <<OpItem("contains", VStr(""), {})>>),
     CondOps("priority_hint", <<OpItem("not_in", VNone, {VStr("low")})>>),
     CondOps("priority_hint", <<OpItem("not_in", VNone, {VNone, VStr("low")})>>),
     CondOps("meta.region", <<OpItem("lte", VInt(5), {}), OpItem("not_in", VNone, {})>>)}
MatchConditions ==
    UNION {[1..n -> MatchItems] : n \in 0..MaxConditions}
MatchEvents == {EvCriticalBilling, EvPromoSms, EvPromoPush}

InitMatch ==
    /\ arbIn = [phase |-> "off"]
    /\ arbOut = NotRun
    /\ sendOut = NoTime
    /\ PipeIdle(NumEvals)
    /\ RulesIdle /\ ScorerIdle
    /\ callIn \in [phase : {"input"}, event : MatchEvents, conditions : MatchConditions]
    /\ callOut = NotRun

MatchConditionsCall ==
    /\ callIn.phase = "input"
    /\ callOut' = [decision |-> matches_conditions(callIn.event, callIn.conditions)]
    /\ callIn' = [callIn EXCEPT !.phase = "matched"]
    /\ UNCHANGED <<rulesVars, scorerVars, arbVars, pipeVars>>

NextMatch == MatchConditionsCall

SpecMatch == InitMatch /\ [][NextMatch]_vars

\* The claim's reading of one condition: a field the event has passes a
\* list iff it is in it, a scalar iff it equals it, an operator map iff every
\* operator passes; a field the event does not have passes only not_in.
MatchAbsent(event, key) == EventVal(event, key) = VNone
MatchSatisfied(event, cond) ==
    IF MatchAbsent(event, cond.key)
    THEN cond.kind = "ops" /\ \A i \in DOMAIN cond.ops : cond.ops[i].op = "not_in"
    ELSE CASE cond.kind = "list" -> EventVal(event, cond.key) \in cond.items
           [] cond.kind = "scalar" -> EventVal(event, cond.key) = cond.value
           [] OTHER -> \A i \in DOMAIN cond.ops :
                          op_passes(EventVal(event, cond.key), cond.ops[i]) = "pass"

\* C16: _matches_conditions is true exactly when every condition of the dict
\* is satisfied, where a field absent from the event satisfies no list,
\* scalar, gte, lte or contains condition whatever the operand, and satisfies
\* not_in; the empty dict matches every event.
C16_AndOfConditions ==
    callIn.phase = "matched" =>
        (callOut.decision = "pass") <=>
            \A i \in DOMAIN callIn.conditions : MatchSatisfied(callIn.event, callIn.conditions[i])

\* C16, the failing case: the event has no priority_hint and the only
\* condition is a list on priority_hint that holds null; the call is true.
C16_Witness ==
    /\ callIn.phase = "matched"
    /\ callIn.event.priority_hint = "none"
    /\ Len(callIn.conditions) = 1
    /\ callIn.conditions[1].key = "priority_hint"
    /\ callIn.conditions[1].kind = "list"
    /\ callOut.decision = "pass"

\* ------------------------------------------------------------------------
\* Scorer (services/ai_scorer.py).  Sub-scores are hundredths, a score is
\* ten-thousandths (0.75 is 7500): the weighted sum of hundredths by weights
\* in hundredths, computed exactly.

\* _URGENCY_MAP in the order of the dict, _PRIORITY_HINT_URGENCY
URGENCY_MAP ==
    <<[keyword |-> "critical", urgency |-> 100], [keyword |-> "security", urgency |-> 100],
      [keyword |-> "payment_failed", urgency |-> 100], [keyword |-> "payment_declined", urgency |-> 100],
      [keyword |-> "2fa", urgency |-> 100], [keyword |-> "otp", urgency |-> 100],
      [keyword |-> "password", urgency |-> 90], [keyword |-> "account", urgency |-> 80],
      [keyword |-> "message", urgency |-> 70], [keyword |-> "reminder", urgency |-> 70],
      [keyword |-> "alert", urgency |-> 80], [keyword |-> "update", urgency |-> 50],
      [keyword |-> "system", urgency |-> 50], [keyword |-> "promo", urgency |-> 20],
      [keyword |-> "promotion", urgency |-> 20], [keyword |-> "marketing", urgency |-> 15],
      [keyword |-> "offer", urgency |-> 20], [keyword |-> "discount", urgency |-> 20],
      [keyword |-> "newsletter", urgency |-> 10]>>
UnknownUrgency == 40
PRIORITY_HINT_URGENCY(hint) ==
    CASE hint = "critical" -> 100 [] hint = "high" -> 80 [] hint = "medium" -> 50
      [] hint = "low" -> 20 [] OTHER -> UnknownUrgency

\* _event_type_urgency: the first keyword of the map found in the lowercased type
event_type_urgency(event_type) ==
    LET et == Lower(event_type)
        hits == {i \in DOMAIN URGENCY_MAP : IsSubstring(URGENCY_MAP[i].keyword, et)}
    IN  IF hits = {} THEN UnknownUrgency
        ELSE URGENCY_MAP[CHOOSE i \in hits : \A j \in hits : i <= j].urgency

Min(a, b) == IF a <= b THEN a ELSE b
Max(a, b) == IF a >= b THEN a ELSE b

\* The context the scorer reads: the counter and cap of the last hour, the
\* seconds since the last send of the type (NoTime for None), the heatmap's
\* value at the local hour (NoTime when the heatmap has not 24 entries)
ScoreCtx(notifications_last_1h, hourly_cap, seconds_since_last_same_type, heat) ==
    [notifications_last_1h |-> notifications_last_1h, hourly_cap |-> hourly_cap,
     seconds_since_last_same_type |-> seconds_since_last_same_type, heat |-> heat]
fatigue_ratio_1h(ctx) ==
    IF ctx.hourly_cap = 0 THEN 100
    ELSE Min((ctx.notifications_last_1h * 100) \div ctx.hourly_cap, 100)
engagement_score_for_current_hour(ctx) == IF ctx.heat = NoTime THEN 50 ELSE ctx.heat
recency_bonus(ctx) ==
    IF ctx.seconds_since_last_same_type = NoTime THEN 100
    ELSE Min((ctx.seconds_since_last_same_type * 100) \div default_cooldown_seconds, 100)

ScoringResult(score, decision_hint, urgency, engagement, fatigue_penalty, recency_bonus_, ai_used, fallback_used, fallback_reason) ==
    [score |-> score, decision_hint |-> decision_hint, urgency |-> urgency,
     engagement |-> engagement, fatigue_penalty |-> fatigue_penalty,
     recency_bonus |-> recency_bonus_, ai_used |-> ai_used, fallback_used |-> fallback_used,
     fallback_reason |-> fallback_reason]

\* max(0.0, min(1.0, score)), and the variant that does not clamp
clamp_score_none(score) == score
clamp_score(score) == Max(0, Min(10000, score))

\* _heuristic_score
heuristic_score(event, ctx, fallback_reason) ==
    LET base == event_type_urgency(event.event_type)
        urgency == IF event.priority_hint # "none"
                   THEN Max(base, PRIORITY_HINT_URGENCY(event.priority_hint)) ELSE base
        engagement == engagement_score_for_current_hour(ctx)
        fatigue_penalty == fatigue_ratio_1h(ctx)
        bonus == recency_bonus(ctx)
        score == clamp_score(35 * urgency + 25 * engagement - 25 * fatigue_penalty + 15 * bonus)
        decision == IF score >= ai_score_now_threshold * 100 THEN "now"
                    ELSE IF score >= ai_score_later_threshold * 100 THEN "later"
                    ELSE "never"
    IN  ScoringResult(score, decision, urgency, engagement, fatigue_penalty, bonus,
                      FALSE, TRUE, fallback_reason)

\* SpecHeuristic: _heuristic_score applied to an event and a context
HeurEventTypes == {"payment_failed", "promo_offer", "account_update", "weekly_digest", "Security_Alert"}
HeurHints == {"none", "critical", "high", "medium", "low"}
HeurCounts == {0, 1, 5, 10}
HeurCaps == {0, 4, 5}
HeurSeconds == {NoTime, 0, 900, 3600, 7200}
HeurHeat == {NoTime, 0, 50, 100}

InitHeuristic ==
    /\ arbIn = [phase |-> "off"]
    /\ arbOut = NotRun
    /\ sendOut = NoTime
    /\ PipeIdle(NumEvals)
    /\ RulesIdle /\ ScorerIdle
    /\ callIn \in [phase : {"input"}, event_type : HeurEventTypes, priority_hint : HeurHints,
                   notifications_last_1h : HeurCounts, hourly_cap : HeurCaps,
                   seconds_since_last_same_type : HeurSeconds, heat : HeurHeat]
    /\ callOut = NotRun

HeuristicScore ==
    /\ callIn.phase = "input"
    /\ callOut' = heuristic_score(
                     [event_type |-> callIn.event_type, priority_hint |-> callIn.priority_hint],
                     ScoreCtx(callIn.notifications_last_1h, callIn.hourly_cap,
                              callIn.seconds_since_last_same_type, callIn.heat),
                     "heuristic_primary")
    /\ callIn' = [callIn EXCEPT !.phase = "scored"]
    /\ UNCHANGED <<rulesVars, scorerVars, arbVars, pipeVars>>

NextHeuristic == HeuristicScore

SpecHeuristic == InitHeuristic /\ [][NextHeuristic]_vars

\* C17: the heuristic score is the weighted sum 0.35 urgency + 0.25
\* engagement - 0.25 fatigue_penalty + 0.15 recency_bonus of the result's
\* sub-scores clamped to [0, 1]; the hint is now iff score >= 0.75, later iff
\* 0.40 <= score < 0.75, never otherwise; ai_used is false, fallback_used true.
C17_HeuristicScore ==
    callIn.phase = "scored" =>
        LET sum == 35 * callOut.urgency + 25 * callOut.engagement
                   - 25 * callOut.fatigue_penalty + 15 * callOut.recency_bonus
        IN  /\ callOut.score = (IF sum < 0 THEN 0 ELSE IF sum > 10000 THEN 10000 ELSE sum)
            /\ callOut.score \in 0..10000
            /\ (callOut.decision_hint = "now") <=> (callOut.score >= 7500)
            /\ (callOut.decision_hint = "later") <=> (callOut.score >= 4000 /\ callOut.score < 7500)
            /\ (callOut.decision_hint = "never") <=> (callOut.score < 4000)
            /\ ~callOut.ai_used /\ callOut.fallback_used

\* C17 witness: a weighted sum below zero was clamped to 0 (hint never), and
\* in another run the sum is exactly 0.75 (hint now).
C17_Witness ==
    /\ callIn.phase = "scored"
    /\ \/ /\ 35 * callOut.urgency + 25 * callOut.engagement
             - 25 * callOut.fatigue_penalty + 15 * callOut.recency_bonus < 0
          /\ callOut.score = 0 /\ callOut.decision_hint = "never"
       \/ /\ callOut.score = 7500 /\ callOut.decision_hint = "now"

\* ------------------------------------------------------------------------
\* SpecScorer: score_with_ai called by two evaluations, the circuit breaker
\* around _call_groq and the replies of the LLM

failure_threshold == 3
recovery_timeout == 30
ScorerTickSeconds == 15
MaxScorerClock == 30
MaxFailures == 4
ScoreCallers == {"s1", "s2"}

\* The breaker of @circuit: refuses calls while open and not yet recovered;
\* counts a call that raised and opens at the threshold; a call that
\* returned closes it and clears the count.
breaker_opened(b, t) == b.state = "open" /\ t < b.opened_at + recovery_timeout
call_failed(b, t) ==
    IF b.failures + 1 >= failure_threshold
    THEN [state |-> "open", failures |-> b.failures + 1, opened_at |-> t]
    ELSE [b EXCEPT !.failures = b.failures + 1]
call_succeeded(b) == [b EXCEPT !.state = "closed", !.failures = 0]

\* The event and context of the calls
ScorerEvent == [event_type |-> "promo_offer", priority_hint |-> "low"]
ScorerCtx == ScoreCtx(0, default_hourly_cap, NoTime, 50)

\* A call that raised to the caller of score_with_ai
Raised(exc) == [raised |-> TRUE, exc |-> exc]

\* The except clauses of score_with_ai, in their order; the variant has no
\* `except Exception`
fallback_for_named_only(exc) ==
    IF exc = "CircuitBreakerError"
    THEN heuristic_score(ScorerEvent, ScorerCtx, "circuit_breaker_open") @@ [raised |-> FALSE]
    ELSE IF exc = "TimeoutError"
    THEN heuristic_score(ScorerEvent, ScorerCtx, "groq_timeout") @@ [raised |-> FALSE]
    ELSE Raised(exc)
fallback_for(exc) ==
    IF exc = "CircuitBreakerError"
    THEN heuristic_score(ScorerEvent, ScorerCtx, "circuit_breaker_open") @@ [raised |-> FALSE]
    ELSE IF exc = "TimeoutError"
    THEN heuristic_score(ScorerEvent, ScorerCtx, "groq_timeout") @@ [raised |-> FALSE]
    ELSE heuristic_score(ScorerEvent, ScorerCtx, "groq_error:" \o exc) @@ [raised |-> FALSE]

\* A JSON value of the reply: absent from the object, a number
\* (ten-thousandths for "score"), a string or null
JAbsent == [t |-> "absent", n |-> 0, s |-> ""]
JNum(n) == [t |-> "num", n |-> n, s |-> ""]
JStr(s) == [t |-> "str", n |-> 0, s |-> s]
JNull == [t |-> "null", n |-> 0, s |-> ""]
LlmScores == {JAbsent, JNum(9000), JNum(17000), JStr("high"), JNull}
LlmDecisions == {JAbsent, JStr("now"), JStr("maybe")}
LlmReplies ==
    [kind : {"timeout", "transport", "non_json", "json_array"}, score : {JAbsent}, decision : {JAbsent}]
    \cup [kind : {"json_object"}, score : LlmScores, decision : LlmDecisions]

\* ScoringResult(score=float(data.get("score", 0.5)), decision_hint=
\* str(data.get("decision", "later")), ...): the result, or the exception
\* float() raises
llm_result(data) ==
    IF data.score.t = "str" THEN fallback_for("ValueError")
    ELSE IF data.score.t = "null" THEN fallback_for("TypeError")
    ELSE ScoringResult(IF data.score.t = "absent" THEN 5000 ELSE data.score.n,
                       IF data.decision.t = "absent" THEN "later" ELSE data.decision.s,
                       50, 50, 0, 50, TRUE, FALSE, "none") @@ [raised |-> FALSE]

CallIdle == [pc |-> "idle"]

InitScorer ==
    /\ arbIn = [phase |-> "off"]
    /\ arbOut = NotRun
    /\ sendOut = NoTime
    /\ PipeIdle(NumEvals)
    /\ RulesIdle /\ FnIdle
    /\ breaker = [state |-> "closed", failures |-> 0, opened_at |-> NoTime]
    /\ scoring \in [pc : {"run"}, client : BOOLEAN, calls : {[c \in ScoreCallers |-> CallIdle]},
                    streak : {0}, third_at : {NoTime}, last : {"none"}]

\* History kept with a call's outcome: the consecutive failed calls, the
\* instant the third in a row failed, the last outcome
AfterFailure(sc, t) ==
    [sc EXCEPT !.streak = Min(sc.streak + 1, MaxFailures),
               !.third_at = IF sc.streak + 1 = failure_threshold THEN t ELSE @,
               !.last = "failure"]
AfterSuccess(sc) == [sc EXCEPT !.streak = 0, !.last = "success"]
InOpenWindow(sc, t) == sc.third_at # NoTime /\ t >= sc.third_at /\ t < sc.third_at + recovery_timeout

CallRecord(pc_, cause, invoked, in_window, result) ==
    [pc |-> pc_, cause |-> cause, invoked |-> invoked, in_window |-> in_window, result |-> result]

\* score_with_ai up to the await of _call_groq: the breaker refuses the
\* call, or _call_groq finds no client and raises, or the request is sent
ScoreBegin(c) ==
    /\ scoring.calls[c].pc \in {"idle", "returned"}
    /\ LET w == InOpenWindow(scoring, clock)
       IN  IF breaker_opened(breaker, clock)
           THEN /\ scoring' = [scoring EXCEPT !.calls[c] =
                       CallRecord("returned", "open", FALSE, w, fallback_for("CircuitBreakerError"))]
                /\ UNCHANGED breaker
           ELSE IF ~scoring.client
           THEN /\ breaker.failures < MaxFailures
                /\ breaker' = call_failed(breaker, clock)
                /\ scoring' = [AfterFailure(scoring, clock) EXCEPT !.calls[c] =
                       CallRecord("returned", "no_client", FALSE, w, fallback_for("RuntimeError"))]
           ELSE /\ scoring' = [scoring EXCEPT !.calls[c] =
                       CallRecord("calling", "none", TRUE, w, [raised |-> FALSE])]
                /\ UNCHANGED breaker
    /\ UNCHANGED <<rulesVars, fnVars, arbVars, pipeVars>>

\* The reply: wait_for times out, the transport fails, json.loads fails (all
\* three raise inside the breaker), or json.loads returns and score_with_ai
\* builds the result from the object
LlmReply(c, reply) ==
    /\ scoring.calls[c].pc = "calling"
    /\ LET w == scoring.calls[c].in_window
       IN  IF reply.kind \in {"timeout", "transport", "non_json"}
           THEN /\ breaker.failures < MaxFailures
                /\ breaker' = call_failed(breaker, clock)
                /\ scoring' = [AfterFailure(scoring, clock) EXCEPT !.calls[c] =
                       CallRecord("returned", reply.kind, TRUE, w,
                                  fallback_for(CASE reply.kind = "timeout" -> "TimeoutError"
                                                 [] reply.kind = "transport" -> "APIConnectionError"
                                                 [] OTHER -> "JSONDecodeError"))]
           ELSE /\ breaker' = call_succeeded(breaker)
                /\ scoring' = [AfterSuccess(scoring) EXCEPT !.calls[c] =
                       IF reply.kind = "json_array"
                       THEN CallRecord("returned", "malformed", TRUE, w, fallback_for("AttributeError"))
                       ELSE CallRecord("returned",
                                       IF reply.score.t \in {"str", "null"} THEN "malformed" ELSE "ok",
                                       TRUE, w, llm_result(reply))]
    /\ UNCHANGED <<rulesVars, fnVars, arbVars, pipeVars>>

ScorerTick ==
    /\ clock + ScorerTickSeconds <= ClockStart + MaxScorerClock
    /\ clock' = clock + ScorerTickSeconds
    /\ UNCHANGED <<rulesVars, fnVars, scorerVars, arbVars, kv, pc, evt, loc, results, auditLog,
                   eventRows, batches, bus, scheduler, incrLog>>

NextScorer ==
    \/ \E c \in ScoreCallers : ScoreBegin(c)
    \/ \E c \in ScoreCallers : \E reply \in LlmReplies : LlmReply(c, reply)
    \/ ScorerTick

SpecScorer == InitScorer /\ [][NextScorer]_vars

ScoreReturned(c) == scoring.calls[c].pc = "returned"

\* C18: every ScoringResult score_with_ai returns, from the LLM or from the
\* fallback and whatever JSON object the LLM sent, has a score in [0, 1] and
\* a decision_hint among now, later, never.
C18_ResultInRange ==
    \A c \in ScoreCallers :
        ScoreReturned(c) /\ ~scoring.calls[c].result.raised =>
            /\ scoring.calls[c].result.score \in 0..10000
            /\ scoring.calls[c].result.decision_hint \in {"now", "later", "never"}

\* C18, the failing case: the LLM's object holds score 1.7 and decision
\* "maybe", and they are returned as they came.
C18_Witness ==
    \E c \in ScoreCallers :
        /\ ScoreReturned(c)
        /\ scoring.calls[c].result.ai_used
        /\ scoring.calls[c].result.score > 10000
        /\ scoring.calls[c].result.decision_hint = "maybe"

\* The fallback reason that goes with each cause of failure
MatchingReason(cause) ==
    CASE cause = "open" -> {"circuit_breaker_open"}
      [] cause = "timeout" -> {"groq_timeout"}
      [] cause = "no_client" -> {"groq_error:RuntimeError"}
      [] cause = "transport" -> {"groq_error:APIConnectionError"}
      [] cause = "non_json" -> {"groq_error:JSONDecodeError"}
      [] OTHER -> {"groq_error:ValueError", "groq_error:TypeError", "groq_error:AttributeError"}

\* C19: score_with_ai never raises: after a timeout, a transport error, a
\* missing client, a non-JSON or malformed reply or with the breaker open it
\* returns the heuristic result (ai_used false, fallback_used true) with the
\* reason of that cause.
C19_NeverRaises ==
    \A c \in ScoreCallers :
        ScoreReturned(c) =>
            /\ ~scoring.calls[c].result.raised
            /\ scoring.calls[c].cause # "ok" =>
                  /\ ~scoring.calls[c].result.ai_used
                  /\ scoring.calls[c].result.fallback_used
                  /\ scoring.calls[c].result.fallback_reason \in MatchingReason(scoring.calls[c].cause)
                  /\ scoring.calls[c].result = heuristic_score(ScorerEvent, ScorerCtx,
                         scoring.calls[c].result.fallback_reason) @@ [raised |-> FALSE]

\* C19 witness: one call fell back on an open breaker, the other on a
\* transport error or a malformed reply.
C19_Witness ==
    /\ ScoreReturned("s1") /\ ScoreReturned("s2")
    /\ scoring.calls["s1"].cause = "open"
    /\ scoring.calls["s2"].cause \in {"transport", "malformed"}
    /\ scoring.calls["s1"].result.fallback_used /\ scoring.calls["s2"].result.fallback_used

\* C20: once three LLM calls in a row have failed the breaker is open, and
\* every score_with_ai call begun in the 30 s after the third failure
\* returns the heuristic result with reason circuit_breaker_open without
\* invoking the LLM; the breaker is never open after fewer than three
\* failures in a row; a success clears the failure count.
C20_BreakerOpensFor30s ==
    /\ \A c \in ScoreCallers :
          scoring.calls[c].pc # "idle" /\ scoring.calls[c].in_window =>
              /\ ~scoring.calls[c].invoked
              /\ scoring.calls[c].cause = "open"
    /\ breaker.state = "open" => scoring.third_at # NoTime
    /\ scoring.last = "failure" /\ scoring.streak >= failure_threshold => breaker.state = "open"
    /\ scoring.last = "success" => breaker.failures = 0

\* C20, the failing case: a call that was in flight when the third failure
\* opened the breaker succeeded and closed it, and a call begun within the
\* 30 s invoked the LLM.
C20_Witness ==
    \E c \in ScoreCallers :
        /\ scoring.calls[c].pc # "idle"
        /\ scoring.calls[c].in_window
        /\ scoring.calls[c].invoked
        /\ scoring.third_at # NoTime

\* ------------------------------------------------------------------------
\* The breaker as a state machine: an open breaker whose recovery_timeout
\* has run out is half open

BreakerState(b, t) ==
    IF b.state = "open" /\ t >= b.opened_at + recovery_timeout THEN "half_open" ELSE b.state

BreakerMoves ==
    {<<"closed", "closed">>, <<"closed", "open">>, <<"open", "open">>, <<"open", "half_open">>,
     <<"half_open", "half_open">>, <<"half_open", "closed">>, <<"half_open", "open">>}

CallBegan(c) == scoring.calls[c].pc # "calling" /\ scoring'.calls[c].pc = "calling"
CallEnded(c) == scoring.calls[c].pc = "calling" /\ scoring'.calls[c].pc = "returned"
CallEndedWell(c) == CallEnded(c) /\ scoring'.last = "success" /\ scoring'.calls[c].cause \in {"ok", "malformed"}
CallEndedBadly(c) == CallEnded(c) /\ scoring'.calls[c].cause \in {"timeout", "transport", "non_json"}

\* One step of the breaker as the claim has it
BreakerCycleStep ==
    /\ <<BreakerState(breaker, clock), BreakerState(breaker', clock')>> \in BreakerMoves
    /\ BreakerState(breaker, clock) = "open" => \A c \in ScoreCallers : ~CallBegan(c)
    /\ \A c \in ScoreCallers :
          /\ BreakerState(breaker, clock) = "half_open" /\ CallEndedWell(c) =>
                breaker'.state = "closed" /\ breaker'.failures = 0
          /\ BreakerState(breaker, clock) = "half_open" /\ CallEndedBadly(c) =>
                breaker'.state = "open" /\ breaker'.opened_at = clock

\* C21: the breaker only moves closed -> open -> half_open -> closed or
\* open; while open it admits no LLM call, after 30 s it admits a probe, a
\* probe that succeeds closes it with the failure count reset and a probe
\* that fails opens it again for 30 s from then.
C21_BreakerCycle == [][BreakerCycleStep]_vars

\* C21, the failing case: the breaker is closed again less than 30 s after
\* the third failure in a row opened it.
C21_Witness ==
    /\ breaker.state = "closed"
    /\ scoring.third_at # NoTime
    /\ clock < scoring.third_at + recovery_timeout
    /\ scoring.last = "success"

\* ------------------------------------------------------------------------
\* Claims about dispatch, the digest batches and the scheduler (Spec)

\* The evaluation went through dispatch (its notification_events row is
\* there) and dispatch has returned
Dispatched(p) == p \in DOMAIN eventRows /\ pc[p] = "done"

\* The messages dispatch published for an evaluation on a topic, counted
EventMessages(p, topic) ==
    {m \in BagToSet(bus) : m.kind = "event" /\ m.event_ids = {p} /\ m.topic = topic}
PublishedCount(p, topic) ==
    IF EventMessages(p, topic) = {} THEN 0
    ELSE CopiesIn(CHOOSE m \in EventMessages(p, topic) : TRUE, bus)
InSomeBatch(p) ==
    \E i \in 1..Len(batches) : \E k \in 1..Len(batches[i].event_ids) : batches[i].event_ids[k] = p

\* What a dispatch that has returned left on the bus
DispatchPublished(p) ==
    LET accepted == IF loc[p].published = "ok" THEN 1 ELSE 0
    IN  CASE results[p].decision = "never" ->
                /\ loc[p].published = "none"
                /\ PublishedCount(p, "send_now") = 0 /\ PublishedCount(p, "defer") = 0
                /\ ~InSomeBatch(p)
          [] results[p].decision = "later" ->
                /\ loc[p].published \in {"ok", "failed"}
                /\ PublishedCount(p, "defer") = accepted /\ PublishedCount(p, "send_now") = 0
          [] OTHER ->
                /\ loc[p].published \in {"ok", "failed"}
                /\ PublishedCount(p, "send_now") = accepted /\ PublishedCount(p, "defer") = 0

\* A step of evaluation p that belongs to a dispatch with the decision
DispatchStep(p, decision) ==
    /\ pc'[p] # pc[p]
    /\ p \in DOMAIN eventRows'
    /\ loc'[p].decision = decision

DispatchFrame ==
    \A p \in DOMAIN pc :
        /\ DispatchStep(p, "never") => kv' = kv /\ bus' = bus /\ batches' = batches
        /\ DispatchStep(p, "later") => kv' = kv

\* C22: a NEVER dispatch publishes nothing and changes no KV key and no
\* digest batch; a LATER dispatch makes one publish, to defer, and changes
\* no KV key; a NOW dispatch makes one publish, to send_now; the bus holds
\* the message once when the producer accepted it, and every message of the
\* bus has its user_id as key.
C22_DispatchEffects ==
    /\ [](\A p \in DOMAIN pc : Dispatched(p) => DispatchPublished(p))
    /\ [](\A m \in BagToSet(bus) :
             m.kind = "event" => \A p \in m.event_ids : m.key = evt[p].user_id)
    /\ [][DispatchFrame]_vars

\* C22 witness: one dispatch LATER and one NOW have returned, each with its
\* message on the bus.
C22_Witness ==
    \E p \in DOMAIN pc : \E q \in DOMAIN pc :
        /\ Dispatched(p) /\ results[p].decision = "later" /\ PublishedCount(p, "defer") = 1
        /\ Dispatched(q) /\ results[q].decision = "now" /\ PublishedCount(q, "send_now") = 1

\* ------------------------------------------------------------------------
\* SpecDigest: two evaluations for one user and channel under a quiet-hours
\* rule that defers every event, a quarter of an hour a tick, and the
\* scheduler, until the batches have come due.

DigestTickSeconds == 15 * 60
MaxDigestTicks == 6
\* an event of the same user and channel that expires at 22:10
EvLastCall == Event("u1", "promo_offer", "last call", "none", "mkt", "push", "low", ClockStart + HourSeconds + 10 * 60, FALSE, "sigC")
DigestEvents == {EvPromo, EvPayment, EvLastCall}
DigestScores == {60}

InitDigest ==
    /\ arbIn = [phase |-> "off"]
    /\ arbOut = NotRun
    /\ sendOut = NoTime
    /\ PipeIdle(NumEvals)
    /\ RulesIdle /\ FnIdle /\ ScorerIdle

DigestTick ==
    /\ clock < ClockStart + MaxDigestTicks * DigestTickSeconds
    /\ \A p \in DOMAIN pc : pc[p] \in {"idle", "l0", "done"}
    /\ scheduler.pc = "idle"
    /\ clock' = clock + DigestTickSeconds
    /\ kv' = KvPurge(kv, clock + DigestTickSeconds)
    /\ UNCHANGED <<rulesVars, fnVars, scorerVars, arbIn, arbOut, sendOut, pc, evt, loc, results, auditLog, eventRows, batches, bus, scheduler, incrLog>>

NextDigest ==
    \/ \E p \in DOMAIN pc : \E e \in DigestEvents : Submit(p, e)
    \/ \E p \in DOMAIN pc : EvaluateStart(p)
    \/ \E p \in DOMAIN pc : ExactSet(p)
    \/ \E p \in DOMAIN pc : NearScan(p)
    \/ \E p \in DOMAIN pc : NearSet(p)
    \/ \E p \in DOMAIN pc : CooldownAndRules(p, "later")
    \/ \E p \in DOMAIN pc : FetchCount1h(p)
    \/ \E p \in DOMAIN pc : \E score \in DigestScores : FetchCount24h(p, score)
    \/ \E p \in DOMAIN pc : \E ok \in BOOLEAN : Publish(p, ok)
    \/ \E p \in DOMAIN pc : SelectBatch(p)
    \/ \E p \in DOMAIN pc : \E flushed \in BOOLEAN : WriteBatch(p, flushed)
    \/ SchedSelect
    \/ \E ok \in BOOLEAN : SchedBatch(ok)
    \/ SchedCommit
    \/ DigestTick

SpecDigest == InitDigest /\ [][NextDigest]_vars

\* The 30-minute aggregation window an instant falls in
digest_batch_window_seconds == 30 * 60
WindowOf(t) == t \div digest_batch_window_seconds
PendingIn(user_id, channel, window) ==
    {i \in 1..Len(batches) :
        /\ batches[i].user_id = user_id /\ batches[i].channel = channel
        /\ batches[i].status = "pending"
        /\ WindowOf(batches[i].scheduled_at) = window}

\* The user, channel and window of the LATER dispatch of evaluation p
LaterDispatch(p) == loc[p].decision = "later" /\ loc[p].scheduled_at # NoTime
PendingFor(p) == PendingIn(evt[p].user_id, evt[p].channel, WindowOf(loc[p].scheduled_at))

\* _ensure_digest_batch's write as the claim has it: the event goes to the
\* pending batch of its window when there is one, and a batch is created
\* only when there is none
BatchAssignmentStep ==
    \A p \in DOMAIN pc :
        (pc[p] = "batch_write" /\ pc'[p] = "done" /\ LaterDispatch(p)) =>
            /\ Len(batches') > Len(batches) => PendingFor(p) = {}
            /\ PendingFor(p) # {} =>
                  \E i \in PendingFor(p) : batches'[i].event_ids = Append(batches[i].event_ids, p)

OnePendingPerWindow ==
    \A i \in 1..Len(batches) :
        batches[i].status = "pending" =>
            PendingIn(batches[i].user_id, batches[i].channel, WindowOf(batches[i].scheduled_at)) = {i}

\* C23: at any time there is at most one pending batch per user, channel
\* and 30-minute window: a LATER event is appended to the pending batch of
\* its user, channel and window when one exists and a new batch is created
\* only when none exists.
C23_OnePendingBatchPerWindow ==
    /\ []OnePendingPerWindow
    /\ [][BatchAssignmentStep]_vars

\* C23, the failing case: an evaluation deferred to 22:00 had returned
\* before another of the same user and channel started and was deferred to
\* 22:15; each has a pending batch of its own in the window 22:00-22:30.
C23_Witness ==
    \E i \in 1..Len(batches) : \E j \in 1..Len(batches) :
        /\ i < j
        /\ batches[i].status = "pending" /\ batches[j].status = "pending"
        /\ batches[i].user_id = batches[j].user_id /\ batches[i].channel = batches[j].channel
        /\ WindowOf(batches[i].scheduled_at) = WindowOf(batches[j].scheduled_at)
        /\ batches[j].scheduled_at = batches[i].scheduled_at + DigestTickSeconds
        /\ batches[i].event_ids[1] \in loc[batches[j].event_ids[1]].after

\* Two dispatches decided LATER for one user and channel with scheduled_at
\* in one 30-minute window, both returned, of events that do not expire
LaterPair(p, q) ==
    /\ p # q /\ Dispatched(p) /\ Dispatched(q)
    /\ results[p].decision = "later" /\ results[q].decision = "later"
    /\ evt[p].user_id = evt[q].user_id /\ evt[p].channel = evt[q].channel
    /\ WindowOf(results[p].scheduled_at) = WindowOf(results[q].scheduled_at)
    /\ evt[p].expires_at = NoTime /\ evt[q].expires_at = NoTime
BatchesHolding(p) ==
    {i \in 1..Len(batches) : \E k \in 1..Len(batches[i].event_ids) : batches[i].event_ids[k] = p}
SchedulerMessages(p) ==
    {m \in BagToSet(bus) : m.kind \in {"scheduled_send", "digest"} /\ p \in m.event_ids}

\* C24: two events decided LATER for one user and channel with scheduled_at
\* in the same 30-minute window are in one DigestBatch with 2 event_ids,
\* whichever came first, and what the scheduler publishes for them is one
\* send_now message of type digest with both items, never a message for one
\* of them alone.
C24_TwoLaterOneDigest ==
    \A p \in DOMAIN pc : \A q \in DOMAIN pc :
        LaterPair(p, q) =>
            /\ \E i \in 1..Len(batches) :
                  /\ BatchesHolding(p) = {i} /\ BatchesHolding(q) = {i}
                  /\ Len(batches[i].event_ids) = 2
            /\ \A m \in SchedulerMessages(p) \cup SchedulerMessages(q) :
                  /\ m.topic = "send_now" /\ m.kind = "digest"
                  /\ m.event_ids = {p, q}
                  /\ CopiesIn(m, bus) = 1

\* C24, the failing case: the event deferred to 22:00 came first and the
\* one deferred to 22:15 after it had returned; each is in a batch of its
\* own, both batches are sent, and the bus holds one single-event message
\* for each of them and no digest.
C24_Witness ==
    \E p \in DOMAIN pc : \E q \in DOMAIN pc :
        /\ LaterPair(p, q)
        /\ p \in loc[q].after
        /\ results[q].scheduled_at = results[p].scheduled_at + DigestTickSeconds
        /\ \E i \in BatchesHolding(p) : \E j \in BatchesHolding(q) :
              /\ i # j
              /\ batches[i].status = "sent" /\ batches[j].status = "sent"
        /\ \E m \in SchedulerMessages(p) : m.kind = "scheduled_send" /\ m.event_ids = {p}
        /\ \E m \in SchedulerMessages(q) : m.kind = "scheduled_send" /\ m.event_ids = {q}

\* The events of a batch, as the scheduler loaded it, that are not expired
\* at the instant t
Unexpired(b, t) ==
    {i \in DOMAIN eventRows :
        /\ \E k \in 1..Len(b.event_ids) : b.event_ids[k] = i
        /\ ~(eventRows[i].expires_at # NoTime /\ eventRows[i].expires_at <= t)}
BatchMessages(i) == {m \in BagToSet(bus) : m.kind # "event" /\ m.batch_id = i}
Handled(id, status, sent_at) == [id |-> id, status |-> status, sent_at |-> sent_at]

\* One turn of the scheduler's loop as the claim has it (the producer may
\* refuse the message, which is logged)
SchedulerTurn ==
    (scheduler.pc = "run" /\ scheduler.queue # <<>> /\ scheduler'.queue = Tail(scheduler.queue)) =>
        LET b == Head(scheduler.queue)
            left == Unexpired(b, scheduler.now)
            single == Message("send_now", b.user_id, "scheduled_send", left, b.id)
            digest == Message("send_now", b.user_id, "digest", left, b.id)
        IN  /\ batches[b.id].status = "pending"
            /\ batches[b.id].scheduled_at <= scheduler.now
            /\ batches' = batches
            /\ Cardinality(left) = 0 =>
                  /\ bus' = bus
                  /\ Handled(b.id, "cancelled", scheduler.now) \in scheduler'.dirty
            /\ Cardinality(left) = 1 =>
                  /\ bus' = bus (+) SetToBag({single}) \/ bus' = bus
                  /\ Handled(b.id, "sent", scheduler.now) \in scheduler'.dirty
            /\ Cardinality(left) > 1 =>
                  /\ bus' = bus (+) SetToBag({digest}) \/ bus' = bus
                  /\ Handled(b.id, "sent", scheduler.now) \in scheduler'.dirty

\* A batch's status changes only from pending, to sent or cancelled, for a
\* batch that was due, with sent_at the instant of the run
BatchStatusMoves ==
    \A i \in 1..Len(batches) :
        batches'[i].status # batches[i].status =>
            /\ batches[i].status = "pending"
            /\ batches'[i].status \in {"sent", "cancelled"}
            /\ batches[i].scheduled_at <= scheduler.now
            /\ batches'[i].sent_at = scheduler.now

\* Batches not yet due are pending and unpublished; a batch has at most one
\* message, a cancelled batch none
BatchesPublishedOnce ==
    \A i \in 1..Len(batches) :
        /\ batches[i].scheduled_at > clock => batches[i].status = "pending" /\ BatchMessages(i) = {}
        /\ batches[i].status = "cancelled" => BatchMessages(i) = {}
        /\ Cardinality(BatchMessages(i)) <= 1
        /\ \A m \in BatchMessages(i) : CopiesIn(m, bus) = 1 /\ m.topic = "send_now"

ExpiredAt(i, t) == eventRows[i].expires_at # NoTime /\ eventRows[i].expires_at <= t
NewSchedulerMessages == {m \in BagToSet(bus') : m.kind # "event" /\ CopiesIn(m, bus') > CopiesIn(m, bus)}

\* What the scheduler publishes holds only events that have a row and are
\* not expired at the run's now, and a batch with no such event is
\* cancelled with nothing published
NoExpiredPublished ==
    /\ \A m \in NewSchedulerMessages :
          /\ scheduler.pc = "run"
          /\ m.event_ids # {}
          /\ \A i \in m.event_ids : i \in DOMAIN eventRows /\ ~ExpiredAt(i, scheduler.now)
    /\ (scheduler.pc = "run" /\ scheduler.queue # <<>> /\ scheduler'.queue = Tail(scheduler.queue)) =>
          LET b == Head(scheduler.queue)
          IN  (\A k \in 1..Len(b.event_ids) :
                   b.event_ids[k] \notin DOMAIN eventRows \/ ExpiredAt(b.event_ids[k], scheduler.now)) =>
                  /\ bus' = bus
                  /\ \E d \in scheduler'.dirty : d.id = b.id /\ d.status = "cancelled"

\* C26: no message the scheduler publishes contains an event whose
\* expires_at is <= the run's now, and a batch whose events are all expired
\* or missing is cancelled without a publish.
C26_NoExpiredEventSent == [][NoExpiredPublished]_vars

\* C26 witness: a batch of two events was sent when one of them had
\* expired, and its message holds only the other.
C26_Witness ==
    \E i \in 1..Len(batches) : \E m \in BatchMessages(i) :
        /\ batches[i].status = "sent"
        /\ Len(batches[i].event_ids) = 2
        /\ \E k \in 1..2 : ExpiredAt(batches[i].event_ids[k], batches[i].sent_at)
        /\ Cardinality(m.event_ids) = 1
        /\ \A e \in m.event_ids : ~ExpiredAt(e, batches[i].sent_at)

\* ------------------------------------------------------------------------
\* SpecBatch: evaluate_batch (api/notifications.py).  The pipeline run of an
\* item is one step whose outcome is given with the event: the decision it
\* returns, or "bad" for a run that raises.  Payloads of up to MaxSmallBatch
\* events interleave and complete in every order; in the payload of
\* LargeBatch events every run lasts until no task can take a permit, and
\* the runs end in ascending or in descending order of the running tasks.

semaphore_permits == 20
MaxSmallBatch == 3
LargeBatch == 22
ItemKinds == {"now", "later", "never", "bad"}

\* event_ids = [str(uuid.uuid4()) for _ in payload.events]
BatchEventId(k) == 100 + k

PipelineRaised == [event_id |-> 0, decision |-> "raised", scheduled_at |-> NoTime, reason_chain |-> <<>>]

\* evaluate_notification(event, db, event_id=eid), by its outcome
pipeline_outcome(kind, eid) ==
    IF kind = "bad" THEN PipelineRaised
    ELSE DecisionResult(eid, kind, NoTime, <<ReasonStep("L5-Arbiter", "score_threshold", kind)>>)

\* eval_one without its except clause
eval_one_unguarded(kind, eid) == pipeline_outcome(kind, eid)

\* eval_one: the pipeline's result, or the fail-safe LATER when it raised
eval_one(kind, eid) ==
    IF pipeline_outcome(kind, eid) = PipelineRaised
    THEN DecisionResult(eid, "later", NoTime, <<ReasonStep("L0-Error", "pipeline_error", "LATER")>>)
    ELSE pipeline_outcome(kind, eid)

SmallPayloads == UNION {[1..n -> ItemKinds] : n \in 1..MaxSmallBatch}
LargePayload == [k \in 1..LargeBatch |-> IF k \in {2, LargeBatch} THEN "bad" ELSE IF k % 2 = 0 THEN "later" ELSE "now"]

BatchCall(events, order) ==
    [phase |-> "input", events |-> events, order |-> order,
     event_ids |-> [k \in DOMAIN events |-> BatchEventId(k)],
     tasks |-> [k \in DOMAIN events |-> "created"],
     done |-> [k \in DOMAIN events |-> NotRun],
     permits |-> semaphore_permits, peak |-> 0]

InitBatch ==
    /\ arbIn = [phase |-> "off"]
    /\ arbOut = NotRun
    /\ sendOut = NoTime
    /\ PipeIdle(NumEvals)
    /\ RulesIdle /\ ScorerIdle
    /\ callIn \in {BatchCall(events, "any") : events \in SmallPayloads}
                  \cup {BatchCall(LargePayload, order) : order \in {"ascending", "descending"}}
    /\ callOut = NotRun

Running(call) == {k \in DOMAIN call.tasks : call.tasks[k] = "running"}
CanAcquire(call) == call.permits > 0 /\ \E k \in DOMAIN call.tasks : call.tasks[k] = "waiting"

\* evaluate_batch up to the gather: the ids, the semaphore and the tasks
BatchFanOut ==
    /\ callIn.phase = "input"
    /\ callIn' = [callIn EXCEPT !.phase = "gather", !.tasks = [k \in DOMAIN callIn.tasks |-> "waiting"]]
    /\ UNCHANGED <<callOut, rulesVars, scorerVars, arbVars, pipeVars>>

\* `async with semaphore`: the tasks take the permits in the order they
\* were made
TaskAcquire(k) ==
    /\ callIn.phase = "gather"
    /\ callIn.tasks[k] = "waiting"
    /\ \A j \in DOMAIN callIn.tasks : j < k => callIn.tasks[j] # "waiting"
    /\ callIn.permits > 0
    /\ callIn' = [callIn EXCEPT !.tasks[k] = "running", !.permits = @ - 1,
                                !.peak = Max(@, Cardinality(Running(callIn)) + 1)]
    /\ UNCHANGED <<callOut, rulesVars, scorerVars, arbVars, pipeVars>>

\* The pipeline run of task k ends, eval_one returns and the permit is
\* given back
TaskFinish(k) ==
    /\ callIn.phase = "gather"
    /\ callIn.tasks[k] = "running"
    /\ \/ callIn.order = "any"
       \/ callIn.order = "ascending" /\ ~CanAcquire(callIn) /\ \A j \in Running(callIn) : k <= j
       \/ callIn.order = "descending" /\ ~CanAcquire(callIn) /\ \A j \in Running(callIn) : k >= j
    /\ callIn' = [callIn EXCEPT !.tasks[k] = "done", !.permits = @ + 1,
                                !.done[k] = eval_one(callIn.events[k], callIn.event_ids[k])]
    /\ UNCHANGED <<callOut, rulesVars, scorerVars, arbVars, pipeVars>>

\* asyncio.gather returns the tasks' results in the order of the tasks, or
\* raises what a task raised; then the BatchDecisionResult
BatchGather ==
    /\ callIn.phase = "gather"
    /\ \A k \in DOMAIN callIn.tasks : callIn.tasks[k] = "done"
    /\ callOut' = IF \E k \in DOMAIN callIn.done : callIn.done[k] = PipelineRaised
                  THEN [decision |-> "raised", total |-> 0, results |-> <<>>]
                  ELSE [decision |-> "returned", total |-> Len(callIn.done), results |-> callIn.done]
    /\ callIn' = [callIn EXCEPT !.phase = "returned"]
    /\ UNCHANGED <<rulesVars, scorerVars, arbVars, pipeVars>>

NextBatch ==
    \/ BatchFanOut
    \/ \E k \in DOMAIN callIn.tasks : TaskAcquire(k)
    \/ \E k \in DOMAIN callIn.tasks : TaskFinish(k)
    \/ BatchGather

SpecBatch == InitBatch /\ [][NextBatch]_vars

\* C27: evaluate_batch returns one DecisionResult per input event, in input
\* order, each with the event_id made for its position; an item whose
\* pipeline run raised is LATER with the single step L0-Error /
\* pipeline_error and the other items have their pipeline's decisions; at
\* most 20 pipeline runs are in flight at any time.
C27_BatchPerItemResults ==
    /\ callIn.phase \in {"gather", "returned"} => Cardinality(Running(callIn)) <= 20
    /\ callIn.phase = "returned" =>
          /\ callOut.decision = "returned"
          /\ callOut.total = Len(callIn.events)
          /\ Len(callOut.results) = Len(callIn.events)
          /\ \A k \in DOMAIN callIn.events :
                /\ callOut.results[k].event_id = callIn.event_ids[k]
                /\ callIn.events[k] = "bad" =>
                      /\ callOut.results[k].decision = "later"
                      /\ callOut.results[k].reason_chain =
                            <<ReasonStep("L0-Error", "pipeline_error", "LATER")>>
                /\ callIn.events[k] # "bad" => callOut.results[k].decision = callIn.events[k]

\* C27 witness: a batch of 22 events, two of which made the pipeline raise,
\* has returned 22 results, and 20 runs were in flight at its peak.
C27_Witness ==
    /\ callIn.phase = "returned"
    /\ Len(callIn.events) = LargeBatch
    /\ callIn.peak = semaphore_permits
    /\ callOut.decision = "returned"
    /\ callOut.results[2].decision = "later" /\ callOut.results[2].reason_chain[1].layer = "L0-Error"
    /\ callOut.results[1].decision = "now"

\* ---------------------------------------------------------------------------
\* SpecKv: one call of evaluate_single whose KV calls may each fail
\* (redis raises ConnectionError or TimeoutError). callIn is the call and
\* the position of the pipeline in it; callOut is what the caller receives.
\* The verdict of the rules and the decision of the arbiter are inputs of
\* the call.
\* ---------------------------------------------------------------------------
KvCounts == {0, 5}
KvProfiles == {"none", "Asia/Kolkata"}

KvCall(critical, long_message, seen, cooling, rule_decision, decision, count, cached, durable) ==
    [phase |-> "exact_get", critical |-> critical, long_message |-> long_message,
     seen |-> seen, cooling |-> cooling, rule_decision |-> rule_decision, decision |-> decision,
     count |-> count, cached |-> cached, durable |-> durable, failed |-> {},
     ctx |-> [notifications_last_1h |-> 0, notifications_last_24h |-> 0,
              profile_found |-> FALSE, timezone |-> "UTC", source |-> "defaults"]]

InitKv ==
    /\ arbIn = [phase |-> "off"]
    /\ arbOut = NotRun
    /\ sendOut = NoTime
    /\ PipeIdle(NumEvals)
    /\ RulesIdle /\ ScorerIdle
    /\ \E critical, long_message, seen, cooling \in BOOLEAN :
       \E rule_decision \in {"none", "now"}, decision \in {"now", "later", "never"} :
       \E count \in KvCounts, cached, durable \in KvProfiles :
          /\ rule_decision = "now" => decision = "now"
          /\ callIn = KvCall(critical, long_message, seen, cooling, rule_decision, decision, count, cached, durable)
    /\ callOut = [status |-> "pending", decision |-> "none"]

KvFrame == UNCHANGED <<rulesVars, scorerVars, arbVars, pipeVars>>

\* An exception leaves evaluate_notification and evaluate_single turns it
\* into HTTPException(status_code=500)
KvRaise(site) ==
    /\ callIn' = [callIn EXCEPT !.phase = "done", !.failed = @ \cup {site}]
    /\ callOut' = [status |-> "http_500", decision |-> "none"]

KvReturn(decision) ==
    /\ callIn' = [callIn EXCEPT !.phase = "done"]
    /\ callOut' = [status |-> "DecisionResult", decision |-> decision]

KvFailedReturn(site, decision) ==
    /\ callIn' = [callIn EXCEPT !.phase = "done", !.failed = @ \cup {site}]
    /\ callOut' = [status |-> "DecisionResult", decision |-> decision]

KvGoto(phase) ==
    /\ callIn' = [callIn EXCEPT !.phase = phase]
    /\ UNCHANGED callOut

\* check_exact_duplicate: r.get of the fingerprint key, outside any try
KvExactGet(ok) ==
    /\ callIn.phase = "exact_get"
    /\ IF ~ok THEN KvRaise("exact_get")
       ELSE IF callIn.seen THEN KvReturn("never")
       ELSE KvGoto("exact_set")
    /\ KvFrame

\* check_exact_duplicate: r.set of the fingerprint key, outside any try;
\* then the near-duplicate check for a message of more than 20 characters
KvExactSet(ok) ==
    /\ callIn.phase = "exact_set"
    /\ IF ~ok THEN KvRaise("exact_set")
       ELSE IF callIn.long_message THEN KvGoto("near_scan")
       ELSE KvGoto("cooldown_get")
    /\ KvFrame

\* check_near_duplicate: r.scan_iter and r.get, outside any try (the try
\* inside the loop covers json.loads and the comparison only)
KvNearScan(ok) ==
    /\ callIn.phase = "near_scan"
    /\ IF ~ok THEN KvRaise("near_scan") ELSE KvGoto("near_set")
    /\ KvFrame

\* check_near_duplicate: r.set of the signature, outside any try
KvNearSet(ok) ==
    /\ callIn.phase = "near_set"
    /\ IF ~ok THEN KvRaise("near_set") ELSE KvGoto("cooldown_get")
    /\ KvFrame

\* check_topic_cooldown: no KV call for a critical event, else r.get (and
\* r.ttl) outside any try; then the rules, which use no KV call, and the
\* short circuit of a hard rule past the enrichment
KvCooldownGet(ok) ==
    /\ callIn.phase = "cooldown_get"
    /\ IF ~callIn.critical /\ ~ok THEN KvRaise("cooldown_get")
       ELSE IF ~callIn.critical /\ callIn.cooling THEN KvReturn("never")
       ELSE IF callIn.rule_decision = "now" THEN KvGoto("dispatch")
       ELSE KvGoto("counters")
    /\ KvFrame

\* _fetch_redis_counters: both r.get calls inside try, (0, 0) on a failure
KvFetchCounters(ok) ==
    /\ callIn.phase = "counters"
    /\ callIn' = [callIn EXCEPT !.phase = "last_send",
                                !.failed = IF ok THEN @ ELSE @ \cup {"counters"},
                                !.ctx.notifications_last_1h = IF ok THEN callIn.count ELSE 0,
                                !.ctx.notifications_last_24h = IF ok THEN callIn.count ELSE 0]
    /\ UNCHANGED callOut
    /\ KvFrame

\* _fetch_last_send: r.get inside try, None on a failure
KvFetchLastSend(ok) ==
    /\ callIn.phase = "last_send"
    /\ callIn' = [callIn EXCEPT !.phase = "profile", !.failed = IF ok THEN @ ELSE @ \cup {"last_send"}]
    /\ UNCHANGED callOut
    /\ KvFrame

\* _fetch_user_profile: the cache read inside try; on a miss or a failure
\* the durable row, cached again inside try; None without a row, and then
\* enrich_context keeps the defaults of UserContext
KvFetchProfile(ok, okSet) ==
    /\ callIn.phase = "profile"
    /\ LET fromCache == ok /\ callIn.cached # "none"
           fromStore == ~fromCache /\ callIn.durable # "none"
           fails == (IF ok THEN {} ELSE {"profile_get"})
                    \cup (IF fromStore /\ ~okSet THEN {"profile_set"} ELSE {})
       IN callIn' = [callIn EXCEPT
             !.phase = "dispatch",
             !.failed = @ \cup fails,
             !.ctx.profile_found = fromCache \/ fromStore,
             !.ctx.timezone = IF fromCache THEN callIn.cached
                              ELSE IF fromStore THEN callIn.durable ELSE "UTC",
             !.ctx.source = IF fromCache THEN "cache"
                            ELSE IF fromStore THEN "durable" ELSE "defaults"]
    /\ UNCHANGED callOut
    /\ KvFrame

\* dispatch: for a send, _increment_fatigue_counters (its KV calls inside
\* try) and register_cooldown (no KV call for a critical event, else r.set
\* outside any try); no KV call for later and never
KvDispatch(okIncr, okCooldown) ==
    /\ callIn.phase = "dispatch"
    /\ IF callIn.decision # "now" THEN KvReturn(callIn.decision)
       ELSE IF ~callIn.critical /\ ~okCooldown
            THEN KvRaise("register_cooldown")
       ELSE IF ~okIncr THEN KvFailedReturn("incr", "now")
       ELSE KvReturn("now")
    /\ KvFrame

NextKv ==
    \/ \E ok \in BOOLEAN : KvExactGet(ok)
    \/ \E ok \in BOOLEAN : KvExactSet(ok)
    \/ \E ok \in BOOLEAN : KvNearScan(ok)
    \/ \E ok \in BOOLEAN : KvNearSet(ok)
    \/ \E ok \in BOOLEAN : KvCooldownGet(ok)
    \/ \E ok \in BOOLEAN : KvFetchCounters(ok)
    \/ \E ok \in BOOLEAN : KvFetchLastSend(ok)
    \/ \E ok, okSet \in BOOLEAN : KvFetchProfile(ok, okSet)
    \/ \E okIncr, okCooldown \in BOOLEAN : KvDispatch(okIncr, okCooldown)

SpecKv == InitKv /\ [][NextKv]_vars

\* C28: when a KV call fails during evaluate_notification the pipeline
\* fails open: the caller receives a DecisionResult and no error, failed
\* counter reads count as 0, and a failed profile cache read falls back to
\* the durable row or to the UTC defaults.
C28_KvDownFailsOpen ==
    callIn.phase = "done" /\ callIn.failed # {} =>
       /\ callOut.status = "DecisionResult"
       /\ "counters" \in callIn.failed =>
             callIn.ctx.notifications_last_1h = 0 /\ callIn.ctx.notifications_last_24h = 0
       /\ "profile_get" \in callIn.failed =>
             \/ callIn.ctx.source = "durable" /\ callIn.ctx.timezone = callIn.durable
             \/ callIn.ctx.source = "defaults" /\ callIn.ctx.timezone = "UTC"

\* C28 witness: the enrichment's KV calls failed with counters of 5 stored
\* and a profile cached, and the caller received a decision made from
\* zero counters and the durable profile.
C28_Witness ==
    /\ callIn.phase = "done"
    /\ {"counters", "profile_get"} \subseteq callIn.failed
    /\ callIn.count = 5 /\ callIn.cached # "none" /\ callIn.durable # "none"
    /\ callIn.ctx.notifications_last_1h = 0
    /\ callIn.ctx.source = "durable"
    /\ callOut.status = "DecisionResult"

\* The enrichment alone does fail open: when only its calls and the
\* counter update failed, the caller has a DecisionResult.
KvEnrichmentFailsOpen ==
    /\ callIn.phase = "done"
    /\ callIn.failed # {}
    /\ callIn.failed \subseteq {"counters", "last_send", "profile_get", "profile_set", "incr"}
    => callOut.status = "DecisionResult"

\* ---------------------------------------------------------------------------
\* The expiry check of evaluate_notification (Spec)

\* Evaluation p is about to run and its event expired before now
ExpiredOnArrival(p) ==
    /\ pc[p] = "l0"
    /\ evt[p].expires_at # NoTime
    /\ evt[p].expires_at < clock

ExpiryDecision(p) ==
    DecisionResult(p, "never", NoTime, <<ReasonStep("L0-Ingestion", "expiry_check", "NEVER")>>)

\* The step that evaluates an expired event returns the expiry decision and
\* changes nothing else
ExpiredEvaluationStep ==
    \A p \in DOMAIN pc :
        ExpiredOnArrival(p) /\ pc'[p] # pc[p] =>
            /\ pc'[p] = "done"
            /\ results'[p] = ExpiryDecision(p)
            /\ loc'[p].exact = "none" /\ loc'[p].set_at = NoTime /\ loc'[p].published = "none"
            /\ UNCHANGED <<kv, bus, batches, eventRows, auditLog, incrLog, rulesVars, scorerVars>>

\* An evaluation that has returned for an event expired at its evaluation
\* time has the expiry decision, and no stage after L0 has run for it
ExpiredStayNever ==
    \A p \in DOMAIN pc :
        /\ pc[p] = "done"
        /\ evt[p].expires_at # NoTime
        /\ evt[p].expires_at < loc[p].eval_at
        => /\ results[p] = ExpiryDecision(p)
           /\ loc[p].exact = "none"
           /\ loc[p].published = "none"
           /\ \A r \in BagToSet(auditLog) : r.event_id # p
           /\ p \notin DOMAIN eventRows

\* C29: an event whose expires_at is earlier than the evaluation time gets
\* NEVER with the single reason step L0-Ingestion / expiry_check, and its
\* evaluation changes no other state: no dedup key, counter or cooldown is
\* written, nothing is published or stored, and no later stage runs.
C29_ExpiredOnArrival == []ExpiredStayNever /\ [][ExpiredEvaluationStep]_vars

\* C29 witness: an event that expired between its request and its
\* evaluation has been evaluated after another event was sent, and has the
\* expiry decision.
C29_Witness ==
    \E p, q \in DOMAIN pc :
        /\ pc[p] = "done" /\ pc[q] = "done"
        /\ evt[p].expires_at # NoTime
        /\ evt[p].expires_at < loc[p].eval_at
        /\ results[p] = ExpiryDecision(p)
        /\ results[q].decision = "now"

\* ---------------------------------------------------------------------------
\* SpecProfile: one call of a profile handler of api/users.py
\* (opt_out_topic, update_preferences or record_feedback) next to
\* evaluations of the same user that fetch the profile through the KV
\* cache.  kv holds the profile cache and clock the time; callIn holds the
\* committed profile row, the handler's request and the evaluations'
\* positions, callOut the evaluations' decisions.
\* ---------------------------------------------------------------------------
NumProfileEvals == 2
MaxProfileTicks == 3
ProfileTickSeconds == 150
profile_cache_ttl == 300
ProfileScores == {80}
ProfileEvals == 1..NumProfileEvals
HandlerOps == {"opt_out_topic", "update_preferences", "record_feedback"}

key_user_profile_cache(user_id) == "user:profile:" \o user_id

\* DEL key
KvDelete(store, k) == [x \in DOMAIN store \ {k} |-> store[x]]

ProfileRow0 ==
    [dnd_start_hour |-> 22, dnd_end_hour |-> 8, opted_out_topics |-> {"newsletter"},
     engagement_heatmap |-> FlatHeatmap]

\* What the handler assigns to the profile object of its session
HandlerUpdate(op, profile, t) ==
    IF op = "opt_out_topic"
    THEN [profile EXCEPT !.opted_out_topics = @ \cup {"promo_offer"}]
    ELSE IF op = "update_preferences"
    THEN [profile EXCEPT !.dnd_start_hour = 21]
    ELSE [profile EXCEPT !.engagement_heatmap[HourOf(t) + 1] = Max(0, @ - 10)]

\* enrich_context's "Apply profile" and the DND flag
ctx_from_profile(user_id, profile, t) ==
    LET ctx == [UserContext(user_id) EXCEPT
                   !.dnd_start_hour = profile.dnd_start_hour,
                   !.dnd_end_hour = profile.dnd_end_hour,
                   !.opted_out_topics = profile.opted_out_topics,
                   !.engagement_heatmap = profile.engagement_heatmap]
    IN  [ctx EXCEPT !.dnd_active = is_dnd_active(ctx.dnd_start_hour, ctx.dnd_end_hour, HourOf(t))]

IdleEval == [pc |-> "idle", profile |-> ProfileRow0, after |-> FALSE, source |-> "none"]

InitProfile ==
    /\ arbIn = [phase |-> "off"]
    /\ arbOut = NotRun
    /\ sendOut = NoTime
    /\ clock = ClockStart
    /\ kv \in {EmptyKv,
               KvSetEx(EmptyKv, key_user_profile_cache("u1"), ProfileRow0, profile_cache_ttl, ClockStart)}
    /\ pc = [p \in 1..NumEvals |-> "idle"]
    /\ evt = [p \in 1..NumEvals |-> NoEvent]
    /\ loc = [p \in 1..NumEvals |-> IdleLoc]
    /\ results = [p \in 1..NumEvals |-> NoResult]
    /\ auditLog = EmptyBag
    /\ eventRows = [i \in {} |-> NoEvent]
    /\ batches = <<>>
    /\ bus = EmptyBag
    /\ scheduler = SchedIdle
    /\ incrLog = [u \in Users |-> <<>>]
    /\ RulesIdle /\ ScorerIdle
    /\ \E op \in HandlerOps :
          callIn = [row |-> ProfileRow0, op |-> op, handler |-> "idle", pending |-> ProfileRow0,
                    ticks |-> 0, evals |-> [e \in ProfileEvals |-> IdleEval]]
    /\ callOut = [e \in ProfileEvals |-> NotRun]

ProfileFrame ==
    UNCHANGED <<rulesVars, scorerVars, arbVars, pc, evt, loc, results, auditLog, eventRows, batches, bus, scheduler, incrLog>>

\* _get_or_create_profile and the assignments to the profile object: the
\* handler reads the committed row and changes its own session's object
HandlerLoad ==
    /\ callIn.handler = "idle"
    /\ callIn' = [callIn EXCEPT !.handler = "loaded",
                                !.pending = HandlerUpdate(callIn.op, callIn.row, clock)]
    /\ UNCHANGED <<kv, clock, callOut>>
    /\ ProfileFrame

\* r.delete(key_user_profile_cache(user_id)), the handler's last statement
HandlerDeleteCache ==
    /\ callIn.handler = "loaded"
    /\ kv' = KvDelete(kv, key_user_profile_cache("u1"))
    /\ callIn' = [callIn EXCEPT !.handler = "returned"]
    /\ UNCHANGED <<clock, callOut>>
    /\ ProfileFrame

\* The request's session is committed when the request scope ends; the
\* handler's call is complete from then on
HandlerCommit ==
    /\ callIn.handler = "returned"
    /\ callIn' = [callIn EXCEPT !.handler = "completed", !.row = callIn.pending]
    /\ UNCHANGED <<kv, clock, callOut>>
    /\ ProfileFrame

\* An evaluation reaches enrich_context
ProfileEvalStart(e) ==
    /\ callIn.evals[e].pc = "idle"
    /\ \A d \in ProfileEvals : d < e => callIn.evals[d].pc # "idle"
    /\ callIn' = [callIn EXCEPT !.evals[e].pc = "cache_get",
                                !.evals[e].after = (callIn.handler = "completed")]
    /\ UNCHANGED <<kv, clock, callOut>>
    /\ ProfileFrame

\* _fetch_user_profile: r.get of the cache key
ProfileCacheGet(e) ==
    /\ callIn.evals[e].pc = "cache_get"
    /\ LET k == key_user_profile_cache("u1")
       IN  callIn' = IF KvLive(kv, k, clock)
                     THEN [callIn EXCEPT !.evals[e].pc = "arbitrate",
                                         !.evals[e].profile = kv[k].val,
                                         !.evals[e].source = "cache"]
                     ELSE [callIn EXCEPT !.evals[e].pc = "db_read"]
    /\ UNCHANGED <<kv, clock, callOut>>
    /\ ProfileFrame

\* _fetch_user_profile: the SELECT of the profile row, which sees what is
\* committed
ProfileDbRead(e) ==
    /\ callIn.evals[e].pc = "db_read"
    /\ callIn' = [callIn EXCEPT !.evals[e].pc = "cache_set",
                                !.evals[e].profile = callIn.row,
                                !.evals[e].source = "durable"]
    /\ UNCHANGED <<kv, clock, callOut>>
    /\ ProfileFrame

\* _fetch_user_profile: r.set(cache_key, json.dumps(data), ex=300)
ProfileCacheSet(e) ==
    /\ callIn.evals[e].pc = "cache_set"
    /\ kv' = KvSetEx(kv, key_user_profile_cache("u1"), callIn.evals[e].profile, profile_cache_ttl, clock)
    /\ callIn' = [callIn EXCEPT !.evals[e].pc = "arbitrate"]
    /\ UNCHANGED <<clock, callOut>>
    /\ ProfileFrame

\* enrich_context builds the UserContext from the profile, and arbitrate
\* decides an event of type promo_offer that no rule matched
ProfileArbitrate(e, score) ==
    /\ callIn.evals[e].pc = "arbitrate"
    /\ callOut' = [callOut EXCEPT ![e] =
          arbitrate(EvPromo, "none", "none", score, ctx_from_profile("u1", callIn.evals[e].profile, clock),
                    <<>>, <<>>, ReasonStep("L4-AIScorer", "ai_score", "SCORED"), clock)]
    /\ callIn' = [callIn EXCEPT !.evals[e].pc = "done"]
    /\ UNCHANGED <<kv, clock>>
    /\ ProfileFrame

ProfileTick ==
    /\ callIn.ticks < MaxProfileTicks
    /\ clock' = clock + ProfileTickSeconds
    /\ kv' = KvPurge(kv, clock + ProfileTickSeconds)
    /\ callIn' = [callIn EXCEPT !.ticks = @ + 1]
    /\ UNCHANGED callOut
    /\ ProfileFrame

NextProfile ==
    \/ HandlerLoad
    \/ HandlerDeleteCache
    \/ HandlerCommit
    \/ \E e \in ProfileEvals : ProfileEvalStart(e)
    \/ \E e \in ProfileEvals : ProfileCacheGet(e)
    \/ \E e \in ProfileEvals : ProfileDbRead(e)
    \/ \E e \in ProfileEvals : ProfileCacheSet(e)
    \/ \E e \in ProfileEvals, score \in ProfileScores : ProfileArbitrate(e, score)
    \/ ProfileTick

SpecProfile == InitProfile /\ [][NextProfile]_vars

\* An evaluation that started after the handler completed and has its
\* profile
StartedAfterUpdate(e) ==
    /\ callIn.evals[e].after
    /\ callIn.evals[e].pc \in {"cache_set", "arbitrate", "done"}

\* C30: once opt_out_topic, update_preferences or record_feedback has
\* completed, every evaluation that starts afterwards builds its
\* UserContext from the updated profile, whatever evaluations of the user
\* were reading and caching the profile during the update; a later event
\* of the opted-out topic that no rule forces gets NEVER with override
\* user_opt_out.
C30_UpdateSeenAfterCompletion ==
    \A e \in ProfileEvals :
        StartedAfterUpdate(e) =>
            /\ callIn.evals[e].profile = callIn.row
            /\ callIn.op = "opt_out_topic" /\ callIn.evals[e].pc = "done" =>
                  callOut[e].decision = "never" /\ callOut[e].override = "user_opt_out"

\* C30 witness: an evaluation fetched and cached the profile while the
\* opt-out was in progress, and an evaluation that started after the
\* opt-out completed has decided.
C30_Witness ==
    /\ callIn.op = "opt_out_topic"
    /\ callIn.handler = "completed"
    /\ callIn.evals[1].source = "durable" /\ ~callIn.evals[1].after /\ callIn.evals[1].pc = "done"
    /\ callIn.evals[2].after /\ callIn.evals[2].pc = "done"
    /\ callOut[2].decision = "never" /\ callOut[2].override = "user_opt_out"

\* Without an evaluation in flight during the update the claim holds: an
\* evaluation that started after the completion of a handler call that no
\* evaluation overlapped is built from the updated profile.
UpdateSeenWhenNotOverlapped ==
    \A e \in ProfileEvals :
        /\ StartedAfterUpdate(e)
        /\ \A d \in ProfileEvals : callIn.evals[d].pc # "idle" => callIn.evals[d].after
        => callIn.evals[e].profile = callIn.row

\* ---------------------------------------------------------------------------
\* SpecRulePath: one evaluation from evaluate_rules to the rows dispatch
\* writes, with the rules _seed_default_rules creates (or a part of them),
\* an event, the UTC hour of the evaluation, a score and the user's
\* counters and DND flag.  callIn is the evaluation, callOut what it
\* returned and wrote.
\* ---------------------------------------------------------------------------
SeedPayment ==
    RuleRow("s1", "Force critical payment alerts", "force_now",
            <<CondList("event_type", {VStr("payment_failed"), VStr("payment_declined"), VStr("payment_error")})>>,
            NoParams, 1, TRUE)
SeedSecurity ==
    RuleRow("s2", "Force security and auth alerts", "force_now",
            <<CondList("event_type", {VStr("security_alert"), VStr("login_attempt"), VStr("otp"), VStr("2fa"), VStr("password_reset")})>>,
            NoParams, 2, TRUE)
SeedChannel ==
    RuleRow("s3", "Suppress all promotions via SMS", "channel_override",
            <<CondList("event_type", {VStr("promo_offer"), VStr("promotion"), VStr("marketing"), VStr("discount"), VStr("newsletter")})>>,
            [allowed_channels |-> {"push", "email", "in_app"}], 10, TRUE)
SeedQuiet ==
    RuleRow("s4", "Global quiet hours 22-08 UTC", "quiet_hours", <<>>,
            [start_hour |-> 22, end_hour |-> 8], 20, TRUE)
SeedRules == {SeedPayment, SeedSecurity, SeedChannel, SeedQuiet}

\* An event with the fields the rules and the arbiter read
PathEvent(event_type, channel, priority_hint) ==
    [event_type |-> event_type, source |-> "svc", channel |-> channel, priority_hint |-> priority_hint,
     user_id |-> "u1", metadata |-> NoMetadata, expires_at |-> NoTime]
PathEvents ==
    {PathEvent("promo_offer", "sms", "low"), PathEvent("promo_offer", "push", "low"),
     PathEvent("newsletter", "sms", "none"), PathEvent("account_update", "push", "critical"),
     PathEvent("payment_failed", "sms", "critical"), PathEvent("account_update", "email", "medium")}
PathHours == {3, 12, 23}
PathScores == {30, 80}
PathCounts == {0, 5}

InitRulePath ==
    /\ arbIn = [phase |-> "off"]
    /\ arbOut = NotRun
    /\ sendOut = NoTime
    /\ PipeIdle(NumEvals)
    /\ RulesIdle /\ ScorerIdle
    /\ \E table \in SUBSET SeedRules, event \in PathEvents, hour \in PathHours :
       \E score \in PathScores, count \in PathCounts, dnd \in BOOLEAN :
          callIn = [phase |-> "rules", table |-> table, event |-> event,
                    at |-> hour * HourSeconds + 10 * 60, score |-> score,
                    ctx |-> [UserContext("u1") EXCEPT !.notifications_last_1h = count,
                                                      !.notifications_last_24h = count,
                                                      !.dnd_active = dnd],
                    rule |-> RuleResult("none", "none", <<>>)]
    /\ callOut = NotRun

\* evaluate_notification, L2: evaluate_rules on the active rules
RulePathRules ==
    /\ callIn.phase = "rules"
    /\ \E rules \in load_rules_from_db(callIn.table) :
          callIn' = [callIn EXCEPT !.phase = "arbitrate",
                                   !.rule = evaluate_rules(rules, callIn.event, HourOf(callIn.at))]
    /\ UNCHANGED <<callOut, rulesVars, scorerVars, arbVars, pipeVars>>

\* evaluate_notification, the short circuit of a hard rule (dummy score and
\* default UserContext) or L3..L5 with the user's context and the score
RulePathArbitrate ==
    /\ callIn.phase = "arbitrate"
    /\ LET r == callIn.rule
           hard == r.decision \in {"now", "never"}
           a == IF hard
                THEN arbitrate(callIn.event, r.decision, r.rule_name,
                               IF r.decision = "now" THEN 100 ELSE 0,
                               UserContext("u1"), r.steps, <<>>, SkippedAiStep, callIn.at)
                ELSE arbitrate(callIn.event, r.decision, r.rule_name, callIn.score,
                               callIn.ctx, r.steps, <<>>, score_reason_step(callIn.score), callIn.at)
       IN  callOut' = [decision |-> a.decision, scheduled_at |-> a.scheduled_at,
                       reason_chain |-> a.reason_chain, override |-> a.override,
                       event_rule_matched |-> "unwritten", audit_rule_matched |-> "unwritten"]
    /\ callIn' = [callIn EXCEPT !.phase = "dispatch"]
    /\ UNCHANGED <<rulesVars, scorerVars, arbVars, pipeVars>>

\* dispatch: _persist_event and _write_audit_log store the arbiter's
\* override note as rule_matched
RulePathDispatch ==
    /\ callIn.phase = "dispatch"
    /\ callOut' = [callOut EXCEPT !.event_rule_matched = callOut.override,
                                  !.audit_rule_matched = callOut.override]
    /\ callIn' = [callIn EXCEPT !.phase = "dispatched"]
    /\ UNCHANGED <<rulesVars, scorerVars, arbVars, pipeVars>>

NextRulePath ==
    \/ RulePathRules
    \/ RulePathArbitrate
    \/ RulePathDispatch

SpecRulePath == InitRulePath /\ [][NextRulePath]_vars

\* The rule of the table that gave the verdict of evaluate_rules
VerdictRuleType ==
    IF \E row \in callIn.table : row.rule_name = callIn.rule.rule_name
    THEN (CHOOSE row \in callIn.table : row.rule_name = callIn.rule.rule_name).rule_type
    ELSE "none"

BlockedByChannelOverride ==
    /\ callIn.phase = "dispatched"
    /\ VerdictRuleType = "channel_override"
    /\ callIn.rule.decision = "never"
    /\ callIn.event.channel \notin {"push", "email", "in_app"}

\* C31: when a channel_override rule blocks an event the decision is NEVER
\* and the rule_matched stored with the event and with its audit entry
\* equals the rule's rule_name ("Suppress all promotions via SMS").
C31_ChannelOverrideRuleMatched ==
    BlockedByChannelOverride =>
        /\ callOut.decision = "never"
        /\ callOut.event_rule_matched = callIn.rule.rule_name
        /\ callOut.audit_rule_matched = callIn.rule.rule_name

\* C31 witness: a promo_offer over sms was blocked by the seeded rule and
\* its rows are written with decision NEVER.
C31_Witness ==
    /\ BlockedByChannelOverride
    /\ callIn.event.event_type = "promo_offer"
    /\ callIn.rule.rule_name = "Suppress all promotions via SMS"
    /\ callOut.decision = "never"
    /\ callOut.event_rule_matched # "unwritten"

\* What the code stores: the rule's name behind the prefix "rule:"
ChannelOverrideStoresPrefixedName ==
    BlockedByChannelOverride =>
        /\ callOut.decision = "never"
        /\ callOut.event_rule_matched = "rule:" \o callIn.rule.rule_name
        /\ callOut.audit_rule_matched = "rule:" \o callIn.rule.rule_name

CriticalInQuietHours ==
    /\ callIn.phase = "dispatched"
    /\ callIn.event.priority_hint = "critical"
    /\ VerdictRuleType = "quiet_hours"
    /\ callIn.rule.decision = "later"
    /\ callIn.event.event_type \notin callIn.ctx.opted_out_topics

\* C33: a critical event that matches an active quiet_hours rule inside
\* its window (rule verdict "later"), with no force rule and no opt-out, is
\* still decided NOW by the arbiter and is not scheduled.
C33_CriticalNotDeferredByQuietHours ==
    CriticalInQuietHours => callOut.decision = "now" /\ callOut.scheduled_at = NoTime

\* C33 witness: a critical account_update evaluated at 23:10 UTC under the
\* seeded rules, whose verdict was "later", has been dispatched.
C33_Witness ==
    /\ CriticalInQuietHours
    /\ callIn.table = SeedRules
    /\ HourOf(callIn.at) = 23
    /\ callIn.event.event_type = "account_update"

\* What the code does: step 6 of arbitrate (rule defer) comes before the
\* score thresholds and has no test of the priority
CriticalDeferredByQuietHours ==
    CriticalInQuietHours =>
        /\ callOut.decision = "later"
        /\ callOut.scheduled_at > callIn.at
        /\ callOut.override = "rule:" \o callIn.rule.rule_name

\* ---------------------------------------------------------------------------
\* SpecFingerprint: _compute_fingerprint applied to two events whose fields
\* are drawn from strings with and without the separator "|"; the titles
\* are already in normal form.
\* ---------------------------------------------------------------------------
FpUsers == {"u1", "u1|x"}
FpTypes == {"promo", "x|promo"}
FpKeys == {"none", "", "k1"}
FpTitles == {"a", "b"}
FpEvents ==
    {Event(user_id, event_type, title, dedupe_key, "mkt", "push", "low", NoTime, FALSE, "sigA") :
        user_id \in FpUsers, event_type \in FpTypes, title \in FpTitles, dedupe_key \in FpKeys}

InitFingerprint ==
    /\ arbIn = [phase |-> "off"]
    /\ arbOut = NotRun
    /\ sendOut = NoTime
    /\ PipeIdle(NumEvals)
    /\ RulesIdle /\ ScorerIdle
    /\ callIn \in [phase : {"input"}, a : FpEvents, b : FpEvents]
    /\ callOut = NotRun

ComputeFingerprints ==
    /\ callIn.phase = "input"
    /\ callOut' = [decision |-> "computed", a |-> compute_fingerprint(callIn.a),
                   b |-> compute_fingerprint(callIn.b)]
    /\ callIn' = [callIn EXCEPT !.phase = "computed"]
    /\ UNCHANGED <<rulesVars, scorerVars, arbVars, pipeVars>>

NextFingerprint == ComputeFingerprints

SpecFingerprint == InitFingerprint /\ [][NextFingerprint]_vars

SameIdentity(a, b) ==
    /\ a.user_id = b.user_id
    /\ a.event_type = b.event_type
    /\ a.source = b.source
    /\ a.dedupe_key = b.dedupe_key

\* C32: the fingerprint is a function of (user_id, event_type, dedupe_key
\* or normalized title, source); two events with different user_id have
\* different fingerprints, also when fields contain "|"; two events that
\* share a dedupe_key, user_id, event_type and source have equal
\* fingerprints whatever their titles.
C32_FingerprintSeparatesUsers ==
    callIn.phase = "computed" =>
        /\ callIn.a.user_id # callIn.b.user_id => callOut.a # callOut.b
        /\ SameIdentity(callIn.a, callIn.b) /\ callIn.a.dedupe_key # "none" => callOut.a = callOut.b

\* C32 witness: two events of different users, one with "|" in its
\* user_id, have been fingerprinted.
C32_Witness ==
    /\ callIn.phase = "computed"
    /\ callIn.a.user_id = "u1|x" /\ callIn.b.user_id = "u1"
    /\ callIn.a.event_type = "promo" /\ callIn.b.event_type = "x|promo"
    /\ callIn.a.dedupe_key = "k1" /\ callIn.b.dedupe_key = "k1"

HasSeparator(s) == s \in {"u1|x", "x|promo"}

\* What holds of the code: the claim's two parts for fields without "|"
\* and a dedupe_key that is not the empty string
FingerprintWithoutSeparator ==
    callIn.phase = "computed" =>
        /\ /\ callIn.a.user_id # callIn.b.user_id
           /\ \A e \in {callIn.a, callIn.b} : ~HasSeparator(e.user_id) /\ ~HasSeparator(e.event_type)
           => callOut.a # callOut.b
        /\ SameIdentity(callIn.a, callIn.b) /\ callIn.a.dedupe_key \notin {"none", ""} => callOut.a = callOut.b
        /\ callIn.a = callIn.b => callOut.a = callOut.b

\* ---------------------------------------------------------------------------
\* The rules cache under an invalidation that falls into a reload (SpecRules)

\* Caller c is suspended in the store read of its reload, and a CRUD
\* request has written its row and called invalidate_rules_cache since the
\* read began
InvalidatedWhileLoading(c) ==
    /\ loader[c].pc = "loading"
    /\ loader[c].store_changed
    /\ crud.pc = "idle"

\* The reload that an invalidation fell into ends without marking the
\* cache fresh, so that the next call reloads
ReloadKeepsInvalidation ==
    \A c \in Callers :
        InvalidatedWhileLoading(c) /\ loader'[c].pc = "returned" =>
            rulesCache'.loaded_at = NoTime

\* The cache holds a list that load_rules_from_db returned, whole
CacheHoldsWholeList ==
    \/ rulesCache.rules = <<>>
    \/ \E table \in SUBSET (CrudRows \cup {RQuiet}) : rulesCache.rules \in load_rules_from_db(table)

\* C34: an invalidate_rules_cache call is never lost: when it happens
\* while a get_active_rules reload is suspended in its store read, the
\* cache is not marked fresh for the list that was read before the
\* invalidation, so that the next call reloads; readers see a whole old or
\* a whole new list.
C34_InvalidationNotLost == []CacheHoldsWholeList /\ [][ReloadKeepsInvalidation]_vars

\* C34 witness: a reload that an invalidation fell into has ended, no
\* call with a session was made since, and the cache is marked fresh with
\* the reload's list, which is not the store's active rules.
C34_Witness ==
    \E c \in Callers :
        /\ loader[c].pc = "returned" /\ loader[c].reloaded /\ loader[c].store_changed
        /\ crud.pc = "idle" /\ crud.invalidated
        /\ rulesCache.loaded_at # NoTime
        /\ rulesCache.rules = loader[c].got
        /\ loader[c].got \notin load_rules_from_db(ruleStore)

\* ---------------------------------------------------------------------------
\* SpecCap: evaluations of non-critical events of user u1 (hourly cap 1)
\* that no rule matches and that score 0.77, through the whole pipeline.
\* ---------------------------------------------------------------------------
EvNews == Event("u1", "account_update", "statement ready", "none", "billing", "push", "low", NoTime, FALSE, "sigN")
CapEvents == {EvPromo, EvNews}
CapScores == {77}

InitCap ==
    /\ arbIn = [phase |-> "off"]
    /\ arbOut = NotRun
    /\ sendOut = NoTime
    /\ PipeIdle(NumEvals)
    /\ RulesIdle /\ FnIdle /\ ScorerIdle

NextCap ==
    \/ \E p \in DOMAIN pc : \E e \in CapEvents : Submit(p, e)
    \/ \E p \in DOMAIN pc : EvaluateStart(p)
    \/ \E p \in DOMAIN pc : ExactSet(p)
    \/ \E p \in DOMAIN pc : CooldownAndRules(p, "none")
    \/ \E p \in DOMAIN pc : FetchCount1h(p)
    \/ \E p \in DOMAIN pc : \E score \in CapScores : FetchCount24h(p, score)
    \/ \E p \in DOMAIN pc : \E ok \in BOOLEAN : Publish(p, ok)
    \/ \E p \in DOMAIN pc : IncrementCounters(p)
    \/ \E p \in DOMAIN pc : RegisterCooldown(p)
    \/ \E p \in DOMAIN pc : SelectBatch(p)
    \/ \E p \in DOMAIN pc : \E flushed \in BOOLEAN : WriteBatch(p, flushed)
    \/ Tick

SpecCap == InitCap /\ [][NextCap]_vars

\* ctx.hourly_cap of a user: the profile's override, else the default
HourlyCapOf(user_id) ==
    IF ProfileOf(user_id).found /\ ProfileOf(user_id).hourly_cap_override # 0
    THEN ProfileOf(user_id).hourly_cap_override
    ELSE default_hourly_cap

\* The sends counted during the present lifetime of the user's count_1h
\* key: the increments from the one that made the key
RECURSIVE LifetimeSends(_)
LifetimeSends(log) ==
    IF log = <<>> THEN 0
    ELSE IF log[Len(log)].new_1h THEN 1
    ELSE 1 + LifetimeSends(SubSeq(log, 1, Len(log) - 1))

\* Evaluations p and q did not overlap: one began after the other returned
Apart(p, q) == p \in loc[q].after \/ q \in loc[p].after
Began(p) == loc[p].eval_at # NoTime

SchedTurn == \E ok \in BOOLEAN : SchedBatch(ok)
EvalProgress ==
    \E p \in DOMAIN pc :
        \/ ExactSet(p) \/ NearScan(p) \/ NearSet(p)
        \/ CooldownAndRules(p, "later")
        \/ FetchCount1h(p)
        \/ \E ok \in BOOLEAN : Publish(p, ok)
        \/ SelectBatch(p)
        \/ \E flushed \in BOOLEAN : WriteBatch(p, flushed)
DigestProgress == EvalProgress \/ SchedSelect \/ SchedTurn \/ SchedCommit \/ DigestTick
NoneAtArbitration == \A p \in DOMAIN pc : pc[p] # "count_24h"
SpecDigestFair ==
    /\ InitDigest /\ [][NextDigest]_vars
    /\ WF_vars(DigestProgress)
    /\ []<>NoneAtArbitration

\* The caller of evaluation p was answered LATER
AnsweredLater(p) == pc[p] = "done" /\ Dispatched(p) /\ results[p].decision = "later"

\* The LATER dispatch of p returns with p in exactly one batch, which is
\* pending, of its user and channel, and scheduled no earlier than p
AttachedOnReturn ==
    \A p \in DOMAIN pc :
        (pc[p] = "batch_write" /\ pc'[p] = "done") =>
            \E i \in 1..Len(batches') :
                /\ {j \in 1..Len(batches') : \E k \in 1..Len(batches'[j].event_ids) : batches'[j].event_ids[k] = p} = {i}
                /\ batches'[i].status = "pending"
                /\ batches'[i].user_id = evt[p].user_id /\ batches'[i].channel = evt[p].channel
                /\ batches'[i].scheduled_at >= loc[p].scheduled_at

\* The event of p has passed its expires_at
ExpiredBy(p, t) == evt[p].expires_at # NoTime /\ evt[p].expires_at <= t

\* The scheduler published p to send_now, or dropped it as expired
Delivered(p) == SchedulerMessages(p) # {}
DroppedExpired(p) ==
    \E i \in BatchesHolding(p) :
        /\ batches[i].status \in {"cancelled", "sent"}
        /\ ExpiredBy(p, batches[i].sent_at)

\* The event is in a pending batch that comes due only after the last
\* instant of the clock
DigestHorizon == ClockStart + MaxDigestTicks * DigestTickSeconds
DueBeyondHorizon(p) ==
    \E i \in BatchesHolding(p) :
        batches[i].status = "pending" /\ batches[i].scheduled_at > DigestHorizon
Settled(p) == Delivered(p) \/ DroppedExpired(p) \/ DueBeyondHorizon(p)

\* C36: every event answered LATER is attached to exactly one pending
\* batch of its user and channel whose scheduled_at is >= its own, and
\* with a fair scheduler it is eventually published to send_now or dropped
\* as expired (as far as its batch comes due while the clock runs).
C36_LaterEventuallyDelivered ==
    /\ [][AttachedOnReturn]_vars
    /\ \A p \in 1..NumEvals : AnsweredLater(p) ~> Settled(p)

\* The second half of C36 alone
LaterEventuallySettled ==
    \A p \in 1..NumEvals : AnsweredLater(p) ~> Settled(p)

\* C36, the failing case: an event was answered LATER and is in a batch
\* that the scheduler marked sent before the event expired, the send_now
\* message of that batch is on the bus and does not carry the event, and
\* no other message does.
C36_Witness ==
    \E p \in DOMAIN pc : \E i \in 1..Len(batches) :
        /\ AnsweredLater(p)
        /\ BatchesHolding(p) = {i}
        /\ batches[i].status = "sent" /\ ~ExpiredBy(p, batches[i].sent_at)
        /\ \E m \in BagToSet(bus) : m.topic = "send_now" /\ m.batch_id = i /\ p \notin m.event_ids
        /\ SchedulerMessages(p) = {}
        /\ scheduler.pc = "idle"

\* ---------------------------------------------------------------------------
\* SpecSched: SpecDigest with a commit of the scheduler that can fail.
\* ---------------------------------------------------------------------------
MaxCopies == 2

\* The copies the bus holds of a set of messages
RECURSIVE CopiesOf(_)
CopiesOf(ms) ==
    IF ms = {} THEN 0
    ELSE LET m == CHOOSE x \in ms : TRUE IN CopiesIn(m, bus) + CopiesOf(ms \ {m})

\* `await db.commit()` at the end of process_due_batches raises: the
\* exception leaves the function, run_scheduler logs it and the session is
\* closed with nothing written; what was published stays published.
SchedCommitFails ==
    /\ scheduler.pc = "run"
    /\ scheduler.queue = <<>>
    /\ \A d \in scheduler.dirty : CopiesOf(BatchMessages(d.id)) < MaxCopies
    /\ scheduler' = SchedIdle
    /\ UNCHANGED <<rulesVars, fnVars, scorerVars, arbIn, arbOut, sendOut, clock, kv, pc, evt, loc, results, auditLog, eventRows, batches, bus, incrLog>>

NextSched ==
    \/ NextDigest
    \/ SchedCommitFails

SpecSched == InitDigest /\ [][NextSched]_vars

SentHasMessage ==
    \A i \in 1..Len(batches) : batches[i].status = "sent" => BatchMessages(i) # {}
PublishedAtMostOnce ==
    \A i \in 1..Len(batches) : CopiesOf(BatchMessages(i)) <= 1

\* C37: a batch has status sent only if its send_now message was taken by
\* the bus, and the message of a batch is published at most once, whether
\* a publish or a commit fails.
C37_SentOnlyIfPublishedOnce == SentHasMessage /\ PublishedAtMostOnce

\* C37, the failing case: the scheduler has finished its run, a batch with
\* an event that has not expired is marked sent, and the bus holds no
\* send_now message of that batch.
C37_Witness ==
    \E i \in 1..Len(batches) :
        /\ batches[i].status = "sent"
        /\ scheduler.pc = "idle"
        /\ \E k \in 1..Len(batches[i].event_ids) : ~ExpiredBy(batches[i].event_ids[k], batches[i].sent_at)
        /\ BatchMessages(i) = {}

\* The other failing case: a run published the message of a batch and its
\* commit failed, and a later run published it again
SentTwice == \E i \in 1..Len(batches) : CopiesOf(BatchMessages(i)) = MaxCopies

\* ---------------------------------------------------------------------------
\* SpecShortExpiry: the arbiter on events that expire soon after the
\* decision (3 to 40 minutes) or not at all.
\* ---------------------------------------------------------------------------
ClampMarginSeconds == 5 * 60
QuarterSeconds == 15 * 60
ShortExpiryDeltas == {NoTime, 3 * 60, 10 * 60, 20 * 60 - 1, 20 * 60, 40 * 60}
ShortInputs ==
    [priority_hint : {"low"},
     expiry_delta : ShortExpiryDeltas,
     rule_decision : {"none", "later"},
     score : {40, 80},
     opted_out : {FALSE},
     hourly_hit : BOOLEAN,
     daily_hit : {FALSE},
     dnd_active : BOOLEAN,
     dnd_window : ArbDndWindows,
     heatmap : ArbHeatmaps,
     now : ArbNows,
     phase : {"input"}]

InitShortExpiry ==
    /\ arbIn \in ShortInputs
    /\ arbOut = NotRun
    /\ sendOut = NoTime
    /\ PipeIdle(NumEvals)
    /\ RulesIdle /\ FnIdle /\ ScorerIdle

SpecShortExpiry == InitShortExpiry /\ [][NextArb]_vars

DecidedLater == arbIn.phase # "input" /\ arbOut.decision = "later"
\* The chosen candidate was after expires_at, so the clamp applied
Clamped ==
    /\ arbIn.expiry_delta # NoTime
    /\ ChosenHour(ArbCtx(arbIn), arbIn.now) > arbIn.now + arbIn.expiry_delta

\* C38 as stated: the scheduled_at of every LATER decision is later than
\* the time of the decision, for every context and every expires_at in the
\* future.
C38_Original ==
    DecidedLater => arbOut.scheduled_at > arbIn.now

\* C38, amended: the scheduled_at of a LATER decision is later than the
\* time of the decision whenever expires_at is absent or at least 20
\* minutes after it; when the chosen candidate is after expires_at the
\* result is within the quarter hour that ends at expires_at - 5 min.
C38_ScheduledAfterDecision ==
    DecidedLater =>
        /\ (arbIn.expiry_delta = NoTime \/ arbIn.expiry_delta >= QuarterSeconds + ClampMarginSeconds)
              => arbOut.scheduled_at > arbIn.now
        /\ Clamped =>
              /\ arbOut.scheduled_at <= arbIn.now + arbIn.expiry_delta - ClampMarginSeconds
              /\ arbOut.scheduled_at > arbIn.now + arbIn.expiry_delta - ClampMarginSeconds - QuarterSeconds

\* C38 witness: a LATER decision for an event that expires 20 minutes
\* after the decision, scheduled by the clamp to an instant after the
\* decision.
C38_Witness ==
    /\ DecidedLater /\ Clamped
    /\ arbIn.expiry_delta = QuarterSeconds + ClampMarginSeconds
    /\ arbOut.scheduled_at > arbIn.now
    /\ arbOut.scheduled_at < arbIn.now + QuarterSeconds

\* The failing case of the statement as made: a LATER decision whose
\* scheduled_at is not after the decision although the event has not
\* expired
ScheduledAlreadyDue ==
    /\ DecidedLater
    /\ arbIn.expiry_delta # NoTime /\ arbIn.expiry_delta > 0
    /\ arbOut.scheduled_at <= arbIn.now

\* ---------------------------------------------------------------------------
\* C39 (checked under Spec): what a suppressed duplicate writes to the store
\* ---------------------------------------------------------------------------
\* Evaluation p has returned, suppressed by the named dedup check
SuppressedBy(p, check) ==
    /\ pc[p] = "done" /\ loc[p].eval_at # NoTime
    /\ results[p].decision = "never" /\ Len(results[p].reason_chain) > 0
    /\ LET last == results[p].reason_chain[Len(results[p].reason_chain)]
       IN  last.layer = "L1-Dedup" /\ last.check = check /\ last.result = "SUPPRESS"
ExactDuplicate(p) == SuppressedBy(p, "exact_duplicate")
NearDuplicate(p) == SuppressedBy(p, "near_duplicate_lsh")

\* The step in which an evaluation returns as an exact or near duplicate
\* writes nothing
SuppressingStepWritesNothing ==
    \A p \in DOMAIN pc :
        (/\ pc[p] \in {"l0", "near_scan"} /\ pc'[p] = "done"
         /\ results'[p].decision = "never" /\ Len(results'[p].reason_chain) > 0
         /\ results'[p].reason_chain[Len(results'[p].reason_chain)].layer = "L1-Dedup")
        => kv' = kv

\* Every exact-dedup key in the store expires 3600 s after its SET by an
\* evaluation that passed the exact tier
ExactKeyFromPassingSet ==
    \A e \in Events :
        key_exact_dedup(compute_fingerprint(e)) \in DOMAIN kv =>
            \E p \in DOMAIN pc :
                /\ evt[p] # NoEvent /\ compute_fingerprint(evt[p]) = compute_fingerprint(e)
                /\ loc[p].exact = "pass" /\ loc[p].set_at # NoTime
                /\ kv[key_exact_dedup(compute_fingerprint(e))].exp = loc[p].set_at + SEC_1H

\* C39 as stated: an evaluation suppressed as exact_duplicate or
\* near_duplicate has written no KV key.
C39_Original ==
    \A p \in DOMAIN pc : (ExactDuplicate(p) \/ NearDuplicate(p)) => loc[p].set_at = NoTime

\* C39, amended: an evaluation suppressed as exact_duplicate writes no KV
\* key; one suppressed as near_duplicate has written its own exact-dedup
\* key (it passed the exact tier) and nothing else; the suppressing step
\* writes nothing, and every exact-dedup key expires 3600 s after its SET
\* by an evaluation that passed the exact tier.
C39_DuplicateWrites ==
    /\ [](\A p \in DOMAIN pc :
            /\ ExactDuplicate(p) => loc[p].set_at = NoTime /\ loc[p].exact = "dup"
            /\ NearDuplicate(p) => loc[p].set_at = loc[p].eval_at /\ loc[p].exact = "pass")
    /\ []ExactKeyFromPassingSet
    /\ [][SuppressingStepWritesNothing]_vars

\* C39 witness: an evaluation returned as a near duplicate; its own
\* exact-dedup key is in the store, set when it ran, its signature is not,
\* and the user's counter was not touched.
C39_Witness ==
    \E p \in DOMAIN pc :
        /\ NearDuplicate(p)
        /\ KvLive(kv, key_exact_dedup(compute_fingerprint(evt[p])), clock)
        /\ kv[key_exact_dedup(compute_fingerprint(evt[p]))].exp = loc[p].eval_at + SEC_1H
        /\ key_near_dedup_minhash(evt[p].user_id, compute_fingerprint(evt[p])) \notin DOMAIN kv
        /\ key_count_1h(evt[p].user_id) \notin DOMAIN kv

\* The other case: an exact duplicate returned half an hour after the
\* submission that passed, and the key still expires an hour after that one
ExactDuplicateKeepsExpiry ==
    \E p \in DOMAIN pc : \E q \in DOMAIN pc :
        /\ ExactDuplicate(q) /\ loc[p].exact = "pass"
        /\ compute_fingerprint(evt[p]) = compute_fingerprint(evt[q])
        /\ loc[q].eval_at = loc[p].set_at + TickSeconds
        /\ kv[key_exact_dedup(compute_fingerprint(evt[p]))].exp = loc[p].set_at + SEC_1H

\* ---------------------------------------------------------------------------
\* C40 (checked under Spec): the dedup state an evaluation leaves behind
\* ---------------------------------------------------------------------------
\* p has SET its fingerprint; p has stored its near-dup signature
RegisteredExact(p) == loc[p].exact = "pass" /\ loc[p].set_at # NoTime
StoredSignature(p) ==
    /\ pc[p] = "done" /\ RegisteredExact(p) /\ evt[p].long_message
    /\ \E k \in 1..Len(results[p].reason_chain) :
           /\ results[p].reason_chain[k].check = "near_duplicate_lsh"
           /\ results[p].reason_chain[k].result = "PASS"

\* q is a resubmission of the event of p that reached the dedup tiers
\* after p had registered its fingerprint
Resubmission(p, q) ==
    /\ p # q /\ evt[p] = evt[q] /\ RegisteredExact(p)
    /\ pc[q] = "done" /\ loc[q].exact # "none"
    /\ p \in loc[q].saw

ResubmissionCaughtBySignature ==
    \E p \in DOMAIN pc : \E q \in DOMAIN pc :
        /\ Resubmission(p, q) /\ StoredSignature(p)
        /\ loc[q].eval_at = loc[p].set_at + exact_dedup_ttl_seconds
        /\ NearDuplicate(q)

\* The cooldown case (reached under SpecForceNow): an event passed the
\* exact tier and was suppressed by topic_cooldown, and its resubmission
\* returned as an exact duplicate
ResubmissionAfterCooldown ==
    \E p \in DOMAIN pc : \E q \in DOMAIN pc :
        /\ Resubmission(p, q) /\ ExactDuplicate(q)
        /\ pc[p] = "done" /\ p \notin DOMAIN eventRows
        /\ results[p].reason_chain[Len(results[p].reason_chain)].check = "topic_cooldown"

====
